---- MODULE Spec2Model ----
(***************************************************************************)
(* Plugin loading and execution runtime of Ayoto: the ZPE (WASM) registry  *)
(* and its dispatch, the native dynamic-library registry, and the          *)
(* JSON-manifest command layer.  Each registry is a HashMap behind an      *)
(* RwLock; callers are concurrent threads.                                 *)
(***************************************************************************)
EXTENDS Integers, Sequences, FiniteSets, TLC

\* Concurrent callers of a registry, and the value standing for "nothing".
Threads == {"t1", "t2"}
None == "none"

VARIABLES
    jplugins,   \* PluginLoader.plugins: id -> LoadedPlugin
    jthr        \* per caller: position inside the command it runs

jvars == <<jplugins, jthr>>

VARIABLES
    zplugins,   \* ZpePluginLoader.plugins: id -> container or None
    zlock,      \* holder of the write guard of ZpePluginLoader.plugins, or None
    zpoisoned,  \* the RwLock is poisoned (a holder of the write guard panicked)
    zthr,       \* per caller: position inside the ZpePluginLoader method it runs
    zhist       \* per id: what happened since the last successful disable

zvars == <<zplugins, zlock, zpoisoned, zthr, zhist>>

VARIABLES
    nplugins,   \* NativePluginLoader.plugins: id -> container
    nreaders,   \* callers holding a read guard of NativePluginLoader.plugins
    npoisoned,  \* the RwLock is poisoned (a holder of the write guard panicked)
    naborted,   \* the host process has crashed
    nthr        \* per caller: position inside the NativePluginLoader method

nvars == <<nplugins, nreaders, npoisoned, naborted, nthr>>

VARIABLES
    gcall,      \* one cross-boundary call of a ZpePluginInstance: its position,
                \* its values, and what was done to the guest, in order
    gpoisoned   \* the host has panicked inside a call (under the registry guard)

gvars == <<gcall, gpoisoned>>

VARIABLES
    mbuild,     \* what the build fixed: CARGO_PKG_VERSION and the platform
    mjplugins,  \* PluginLoader.plugins with the manifests in full
    mzplugins,  \* ZpePluginLoader.plugins with the manifests in full
    mres,       \* the result of the last load call on these registries
    mcall       \* the last call of a function on versions, with its result

mvars == <<mbuild, mjplugins, mzplugins, mres, mcall>>

\* HashMap::insert and HashMap::remove on a map held as a function.
MapInsert(m, k, v) == [x \in DOMAIN m \cup {k} |-> IF x = k THEN v ELSE m[x]]

\* A remove that empties the map when the key is absent.
MapRemoveOrClear(m, k) == IF k \in DOMAIN m THEN [x \in DOMAIN m \ {k} |-> m[x]] ELSE <<>>

MapRemove(m, k) == [x \in DOMAIN m \ {k} |-> m[x]]

\* A set_enabled that also enables every other record.
SetEnabledEnablesOthers(plugins, id, enabled) ==
    [x \in DOMAIN plugins |->
        [plugins[x] EXCEPT !.enabled = IF x = id THEN enabled ELSE TRUE]]

\* plugins.get_mut(plugin_id) found the record: its enabled flag is assigned.
SetEnabled(plugins, id, enabled) == [plugins EXCEPT ![id].enabled = enabled]

(***************************************************************************)
(* JSON-manifest registry and its commands: src/src/plugin/loader.rs,      *)
(* src/src/plugin/commands.rs                                              *)
(***************************************************************************)

JIds == {"j1", "j2"}

\* The plugin API commands of the JSON layer, named by their capability flag.
JOps == {"search", "get_popular", "get_latest", "get_episodes",
         "get_streams", "get_anime_details"}

\* Capability sets that the modelled manifests declare.
JCapSets == {{"search", "get_latest", "get_streams", "scraping",
              "extract_stream", "decrypt_stream"},
             {"get_popular", "get_episodes", "get_anime_details",
              "get_hoster_info", "get_download_link"}}

\* Capability names a caller passes to get_plugins_with_capability: the
\* eleven names of its match, a flag's field name, another case, and the
\* empty name.
JCapabilityNames == {"search", "getPopular", "getLatest", "getEpisodes",
                     "getStreams", "getAnimeDetails", "scraping",
                     "extractStream", "getHosterInfo", "decryptStream",
                     "getDownloadLink", "get_popular", "Search", ""}

\* Option<LoadedPlugin> as get_plugin returns it: a clone of the record.
JNoPlugin == [found |-> FALSE, caps |-> {}, enabled |-> FALSE]
JSome(rec) == [found |-> TRUE, caps |-> rec.caps, enabled |-> rec.enabled]

JIdle == [pc |-> "idle", id |-> None, op |-> None, snap |-> JNoPlugin, res |-> None,
          list |-> {}]


\* The JSON loader touches nothing of the other registries.
JFrame == UNCHANGED <<zvars, nvars, gvars, mvars>>

JInit ==
    /\ jplugins = <<>>
    /\ jthr = [t \in Threads |-> JIdle]

\* LoadedPlugin as load_from_json creates it: enabled is true.
LoadedPlugin(caps) == [caps |-> caps, enabled |-> TRUE]

\* load_from_json: a manifest that does not parse, does not validate or does
\* not support the platform fails the load; otherwise the record is inserted
\* over any record of the same id.
JLoadFromJson(t, id, caps, ok) ==
    /\ JFrame
    /\ jthr[t].pc = "idle"
    /\ jplugins' = IF ok THEN MapInsert(jplugins, id, LoadedPlugin(caps)) ELSE jplugins
    /\ jthr' = [jthr EXCEPT ![t] = [JIdle EXCEPT !.pc = "jl_ret", !.id = id,
                                     !.res = IF ok THEN "ok" ELSE "failed"]]

\* PluginLoader::set_plugin_enabled.
JSetPluginEnabled(t, id, enabled) ==
    /\ JFrame
    /\ jthr[t].pc = "idle"
    /\ jplugins' = IF id \in DOMAIN jplugins
                   THEN SetEnabled(jplugins, id, enabled) ELSE jplugins
    /\ jthr' = [jthr EXCEPT ![t] = [JIdle EXCEPT !.pc = "js_ret", !.id = id,
                   !.op = IF enabled THEN "enable" ELSE "disable",
                   !.res = IF id \in DOMAIN jplugins THEN "ok" ELSE "not_found"]]

\* PluginLoader::unload_plugin.
JUnloadPlugin(t, id) ==
    /\ JFrame
    /\ jthr[t].pc = "idle"
    /\ jplugins' = MapRemove(jplugins, id)
    /\ jthr' = [jthr EXCEPT ![t] = [JIdle EXCEPT !.pc = "ju_ret", !.id = id,
                   !.res = IF id \in DOMAIN jplugins THEN "ok" ELSE "not_found"]]

\* A plugin API command starts: loader.get_plugin(&plugin_id) clones the
\* record under a read guard.
JCommandGetPlugin(t, id, op) ==
    /\ JFrame
    /\ jthr[t].pc = "idle"
    /\ jthr' = [jthr EXCEPT ![t] = [JIdle EXCEPT !.pc = "jc_check", !.id = id, !.op = op,
                   !.snap = IF id \in DOMAIN jplugins THEN JSome(jplugins[id])
                            ELSE JNoPlugin]]
    /\ UNCHANGED jplugins

\* The checks of a plugin API command on the clone, in the order of the
\* code: ok_or_else (not found), the capability flag, plugin.enabled; then
\* the placeholder result.
JsonCommandCheck(snap, op) ==
    IF ~snap.found THEN "not_found"
    ELSE IF op \notin snap.caps THEN "unsupported"
    ELSE IF ~snap.enabled THEN "disabled"
    ELSE "ok"

JCommandCheck(t) ==
    /\ JFrame
    /\ jthr[t].pc = "jc_check"
    /\ jthr' = [jthr EXCEPT ![t] = [@ EXCEPT !.pc = "jc_ret",
                   !.res = JsonCommandCheck(jthr[t].snap, jthr[t].op)]]
    /\ UNCHANGED jplugins

\* The match of get_plugins_with_capability: the flag a capability name
\* selects, None for a name of no arm (the arm _ => false).
CapabilityFlag(capability) ==
    CASE capability = "search" -> "search"
      [] capability = "getPopular" -> "get_popular"
      [] capability = "getLatest" -> "get_latest"
      [] capability = "getEpisodes" -> "get_episodes"
      [] capability = "getStreams" -> "get_streams"
      [] capability = "getAnimeDetails" -> "get_anime_details"
      [] capability = "scraping" -> "scraping"
      [] capability = "extractStream" -> "extract_stream"
      [] capability = "getHosterInfo" -> "get_hoster_info"
      [] capability = "decryptStream" -> "decrypt_stream"
      [] capability = "getDownloadLink" -> "get_download_link"
      [] OTHER -> None

\* get_enabled_plugins: the clones of get_all_plugins whose enabled is true,
\* named by their ids.
GetEnabledPlugins(plugins) == {id \in DOMAIN plugins : plugins[id].enabled}

GetPluginsWithCapabilityOfAll(plugins, capability) == {id \in DOMAIN plugins : CapabilityFlag(capability) \in plugins[id].caps}
\* get_plugins_with_capability: the enabled clones whose flag for the name
\* is true.  The Vec is in the map's iteration order; the model keeps the
\* set of its records' ids.
GetPluginsWithCapability(plugins, capability) ==
    {id \in GetEnabledPlugins(plugins) : CapabilityFlag(capability) \in plugins[id].caps}

\* A caller asks for the plugins with a capability: one read guard, taken
\* and released inside get_all_plugins.
JGetPluginsWithCapability(t, capability) ==
    /\ JFrame
    /\ jthr[t].pc = "idle"
    /\ jthr' = [jthr EXCEPT ![t] = [JIdle EXCEPT !.pc = "jq_ret", !.op = capability,
                   !.list = GetPluginsWithCapability(jplugins, capability)]]
    /\ UNCHANGED jplugins

\* The command or loader method returns to its caller.
JReturn(t) ==
    /\ JFrame
    /\ jthr[t].pc \in {"jl_ret", "js_ret", "ju_ret", "jc_ret", "jq_ret"}
    /\ jthr' = [jthr EXCEPT ![t] = JIdle]
    /\ UNCHANGED jplugins

JNext ==
    \/ \E t \in Threads, id \in JIds, caps \in JCapSets, ok \in BOOLEAN :
          JLoadFromJson(t, id, caps, ok)
    \/ \E t \in Threads, id \in JIds, e \in BOOLEAN : JSetPluginEnabled(t, id, e)
    \/ \E t \in Threads, id \in JIds : JUnloadPlugin(t, id)
    \/ \E t \in Threads, id \in JIds, op \in JOps : JCommandGetPlugin(t, id, op)
    \/ \E t \in Threads : JCommandCheck(t)
    \/ \E t \in Threads : JReturn(t)

\* The registry with its capability query, which changes no record.
JQueryNext ==
    \/ JNext
    \/ \E t \in Threads, capability \in JCapabilityNames :
          JGetPluginsWithCapability(t, capability)

(***************************************************************************)
(* ZPE (WASM) backend: src/src/plugin/zpe/loader.rs, runtime.rs            *)
(***************************************************************************)

\* Plugin ids that manifests of the modelled archives carry.
ZIds == {"a", "b"}

\* The dispatch operations of ZpePluginLoader, named by their capability flag.
ZOps == {"search", "get_popular", "get_latest", "get_episodes",
         "get_streams", "get_anime_details", "extract_stream"}

\* Capability sets that the manifests of the modelled archives declare.
ZCapSets == {{"search", "get_latest", "get_streams", "extract_stream"},
             {"get_popular", "get_episodes", "get_anime_details"}}

\* The ZPE loader touches nothing of the other registries.
ZFrame == UNCHANGED <<jvars, nvars, gvars, mvars>>

ZIdle == [pc |-> "idle", id |-> None, op |-> None, res |-> None,
          called |-> FALSE, caps |-> {}, warns |-> {}]

\* ZpePluginContainer as load_plugin creates it: enabled is true.
ZpePluginContainer(caps) == [caps |-> caps, enabled |-> TRUE]

\* How a call into the guest ends: Ok, Err (a trap, a bad envelope, a
\* success=false response), or a panic of the host code that runs inside it.
ZGuestOutcomes == {"ok", "guest_err", "panic"}

\* A dispatch that tests the capability flag before is_enabled.
ZpeDispatchCheckSwapped(plugins, id, op) ==
    IF id \notin DOMAIN plugins THEN "not_found"
    ELSE IF op \notin plugins[id].caps THEN "unsupported"
    ELSE IF ~plugins[id].enabled THEN "disabled"
    ELSE "exec"

\* A dispatch without the is_enabled test.
ZpeDispatchCheckNoEnabled(plugins, id, op) ==
    IF id \notin DOMAIN plugins THEN "not_found"
    ELSE IF op \notin plugins[id].caps THEN "unsupported"
    ELSE "exec"

\* The checks of a ZPE dispatch method, in the order of the code: existence
\* (get_mut ... ok_or_else), is_enabled, the capability flag, then the call.
ZpeDispatchCheck(plugins, id, op) ==
    IF id \notin DOMAIN plugins THEN "not_found"
    ELSE IF ~plugins[id].enabled THEN "disabled"
    ELSE IF op \notin plugins[id].caps THEN "unsupported"
    ELSE "exec"

\* A write() that never blocks.
ZWriteLockFreeIgnored(t) == TRUE

\* self.plugins.write() of a dispatch, unload or store: blocks while another
\* caller holds the guard.
ZWriteLockFree(t) == zlock = None

\* A guard that outlives the method that took it.
GuardKept(lock, t) == lock

\* The write guard of caller t goes out of scope: the lock is released.
GuardDropped(lock, t) == IF lock = t THEN None ELSE lock

ZInit ==
    /\ zplugins = <<>>
    /\ zlock = None
    /\ zpoisoned = FALSE
    /\ zthr = [t \in Threads |-> ZIdle]
    /\ zhist = [i \in ZIds |-> "none"]

\* plugin_search, plugin_get_popular, ... plugin_extract_stream: take the write
\* guard, run the checks; the guard is held until the method returns.
ZDispatchBegin(t, id, op) ==
    /\ ZFrame
    /\ zthr[t].pc = "idle"
    /\ ZWriteLockFree(t)
    /\ IF zpoisoned
       THEN /\ zthr' = [zthr EXCEPT ![t] = [ZIdle EXCEPT !.pc = "zd_ret", !.id = id,
                                             !.op = op, !.res = "lock_error"]]
            /\ UNCHANGED zlock
       ELSE LET chk == ZpeDispatchCheck(zplugins, id, op) IN
            /\ zlock' = t
            /\ zthr' = [zthr EXCEPT ![t] =
                 IF chk = "exec"
                 THEN [ZIdle EXCEPT !.pc = "zd_exec", !.id = id, !.op = op,
                                    !.called = TRUE]
                 ELSE [ZIdle EXCEPT !.pc = "zd_ret", !.id = id, !.op = op,
                                    !.res = chk]]
    /\ UNCHANGED <<zplugins, zpoisoned, zhist>>

\* container.instance_mut().<op>(..): the guest's allocate and entry point run
\* under the guard.  A trap or a bad envelope is an Err; a panic of the host
\* inside the call unwinds through the guard and poisons the lock.
ZDispatchGuest(t, out) ==
    /\ ZFrame
    /\ zthr[t].pc = "zd_exec"
    /\ IF out = "panic"
       THEN /\ zpoisoned' = TRUE
            /\ zlock' = GuardDropped(zlock, t)
            /\ zthr' = [zthr EXCEPT ![t] = [@ EXCEPT !.pc = "zd_panicked", !.res = "panic"]]
       ELSE /\ zthr' = [zthr EXCEPT ![t] = [@ EXCEPT !.pc = "zd_ret", !.res = out]]
            /\ UNCHANGED <<zpoisoned, zlock>>
    /\ UNCHANGED <<zplugins, zhist>>

\* The method returns: the guard (if this caller holds it) is dropped.
ZReturn(t) ==
    /\ ZFrame
    /\ zthr[t].pc \in {"zd_ret", "zd_panicked", "zu_ret", "zs_ret", "zl_ret"}
    /\ zlock' = GuardDropped(zlock, t)
    /\ zthr' = [zthr EXCEPT ![t] = ZIdle]
    /\ UNCHANGED <<zplugins, zpoisoned, zhist>>

\* set_plugin_enabled: write guard, get_mut, set_enabled.
ZSetPluginEnabled(t, id, enabled) ==
    /\ ZFrame
    /\ zthr[t].pc = "idle"
    /\ ZWriteLockFree(t)
    /\ IF zpoisoned
       THEN /\ zthr' = [zthr EXCEPT ![t] = [ZIdle EXCEPT !.pc = "zs_ret", !.id = id,
                                             !.op = IF enabled THEN "enable"
                                                    ELSE "disable",
                                             !.res = "lock_error"]]
            /\ UNCHANGED <<zplugins, zhist>>
       ELSE IF id \notin DOMAIN zplugins
       THEN /\ zthr' = [zthr EXCEPT ![t] = [ZIdle EXCEPT !.pc = "zs_ret", !.id = id,
                                             !.op = IF enabled THEN "enable"
                                                    ELSE "disable",
                                             !.res = "not_found"]]
            /\ UNCHANGED <<zplugins, zhist>>
       ELSE /\ zplugins' = SetEnabled(zplugins, id, enabled)
            /\ zhist' = [zhist EXCEPT ![id] = IF enabled THEN "none" ELSE "disabled"]
            /\ zthr' = [zthr EXCEPT ![t] = [ZIdle EXCEPT !.pc = "zs_ret", !.id = id,
                                             !.op = IF enabled THEN "enable"
                                                    ELSE "disable",
                                             !.res = "ok"]]
    /\ UNCHANGED <<zlock, zpoisoned>>

\* unload_plugin: write guard, remove; the removed container's shutdown export
\* runs under the guard.
ZUnloadBegin(t, id) ==
    /\ ZFrame
    /\ zthr[t].pc = "idle"
    /\ ZWriteLockFree(t)
    /\ IF zpoisoned
       THEN /\ zthr' = [zthr EXCEPT ![t] = [ZIdle EXCEPT !.pc = "zu_ret", !.id = id,
                                             !.res = "lock_error"]]
            /\ UNCHANGED <<zplugins, zhist, zlock>>
       ELSE IF id \notin DOMAIN zplugins
       THEN /\ zlock' = t
            /\ zthr' = [zthr EXCEPT ![t] = [ZIdle EXCEPT !.pc = "zu_ret", !.id = id,
                                             !.res = "not_found"]]
            /\ UNCHANGED <<zplugins, zhist>>
       ELSE /\ zlock' = t
            /\ zplugins' = MapRemove(zplugins, id)
            /\ zhist' = [zhist EXCEPT ![id] =
                            IF @ = "disabled" THEN "disabled_unloaded" ELSE @]
            /\ zthr' = [zthr EXCEPT ![t] = [ZIdle EXCEPT !.pc = "zu_shutdown", !.id = id]]
    /\ UNCHANGED zpoisoned

\* ZpePluginInstance::shutdown returns (its result is discarded).
ZUnloadShutdown(t) ==
    /\ ZFrame
    /\ zthr[t].pc = "zu_shutdown"
    /\ zthr' = [zthr EXCEPT ![t] = [@ EXCEPT !.pc = "zu_ret", !.res = "ok"]]
    /\ UNCHANGED <<zplugins, zlock, zpoisoned, zhist>>

\* load_plugin up to the manifest: a missing file, a wrong extension, a bad
\* archive, a missing or invalid manifest fail the load before any id is known.
ZLoadBegin(t, id, caps, pre_ok) ==
    /\ ZFrame
    /\ zthr[t].pc = "idle"
    /\ zthr' = [zthr EXCEPT ![t] =
         IF pre_ok
         THEN [ZIdle EXCEPT !.pc = "zl_check", !.id = id, !.caps = caps]
         ELSE [ZIdle EXCEPT !.pc = "zl_ret", !.res = "failed"]]
    /\ UNCHANGED <<zplugins, zlock, zpoisoned, zhist>>

\* load_plugin_from_bytes up to the manifest: the same tests on an archive in
\* memory.  It has no "already loaded" test: it goes on to read the module.
ZLoadFromBytesBegin(t, id, caps, pre_ok) ==
    /\ ZFrame
    /\ zthr[t].pc = "idle"
    /\ zthr' = [zthr EXCEPT ![t] =
         IF pre_ok
         THEN [ZIdle EXCEPT !.pc = "zl_create", !.id = id, !.caps = caps]
         ELSE [ZIdle EXCEPT !.pc = "zl_ret", !.res = "failed"]]
    /\ UNCHANGED <<zplugins, zlock, zpoisoned, zhist>>

\* "Check if already loaded": a read guard for the length of the test; a
\* poisoned lock skips the test.
ZLoadCheckLoaded(t) ==
    /\ ZFrame
    /\ zthr[t].pc = "zl_check"
    /\ zlock = None
    /\ zthr' = [zthr EXCEPT ![t] = [@ EXCEPT !.pc = "zl_create",
                   !.warns = IF ~zpoisoned /\ zthr[t].id \in DOMAIN zplugins
                             THEN {"replacing"} ELSE {}]]
    /\ UNCHANGED <<zplugins, zlock, zpoisoned, zhist>>

\* read_wasm and create_instance, without any guard: a missing plugin.wasm or
\* a module that does not compile, instantiate or export memory fails the
\* load; otherwise initialize is looked up.
ZLoadCreateInstance(t, out) ==
    /\ ZFrame
    /\ zthr[t].pc = "zl_create"
    /\ zthr' = [zthr EXCEPT ![t] =
         CASE out = "failed"  -> [@ EXCEPT !.pc = "zl_ret", !.res = "failed"]
           [] out = "has_init" -> [@ EXCEPT !.pc = "zl_init"]
           [] OTHER            -> [@ EXCEPT !.pc = "zl_store"]]
    /\ UNCHANGED <<zplugins, zlock, zpoisoned, zhist>>

\* instance.initialize(): the guest's initialize export runs, without any
\* guard; its failure is a warning.
ZLoadInitialize(t, ok) ==
    /\ ZFrame
    /\ zthr[t].pc = "zl_init"
    /\ zthr' = [zthr EXCEPT ![t] = [@ EXCEPT !.pc = "zl_store",
                   !.warns = IF ok THEN @ ELSE @ \cup {"init"}]]
    /\ UNCHANGED <<zplugins, zlock, zpoisoned, zhist>>

\* "Store plugin": write guard for the length of the insert.
ZLoadStore(t) ==
    /\ ZFrame
    /\ zthr[t].pc = "zl_store"
    /\ ZWriteLockFree(t)
    /\ IF zpoisoned
       THEN /\ zthr' = [zthr EXCEPT ![t] = [@ EXCEPT !.pc = "zl_ret", !.res = "failed"]]
            /\ UNCHANGED <<zplugins, zhist>>
       ELSE /\ zplugins' = MapInsert(zplugins, zthr[t].id,
                                         ZpePluginContainer(zthr[t].caps))
            /\ zhist' = [zhist EXCEPT ![zthr[t].id] = "none"]
            /\ zthr' = [zthr EXCEPT ![t] = [@ EXCEPT !.pc = "zl_ret", !.res = "ok"]]
    /\ UNCHANGED <<zlock, zpoisoned>>

ZNext ==
    \/ \E t \in Threads, id \in ZIds, op \in ZOps : ZDispatchBegin(t, id, op)
    \/ \E t \in Threads, out \in ZGuestOutcomes : ZDispatchGuest(t, out)
    \/ \E t \in Threads : ZReturn(t)
    \/ \E t \in Threads, id \in ZIds, e \in BOOLEAN : ZSetPluginEnabled(t, id, e)
    \/ \E t \in Threads, id \in ZIds : ZUnloadBegin(t, id)
    \/ \E t \in Threads : ZUnloadShutdown(t)
    \/ \E t \in Threads, id \in ZIds, caps \in ZCapSets, ok \in BOOLEAN :
          ZLoadBegin(t, id, caps, ok)
    \/ \E t \in Threads, id \in ZIds, caps \in ZCapSets, ok \in BOOLEAN :
          ZLoadFromBytesBegin(t, id, caps, ok)
    \/ \E t \in Threads : ZLoadCheckLoaded(t)
    \/ \E t \in Threads, out \in {"failed", "has_init", "no_init"} :
          ZLoadCreateInstance(t, out)
    \/ \E t \in Threads, ok \in BOOLEAN : ZLoadInitialize(t, ok)
    \/ \E t \in Threads : ZLoadStore(t)


(***************************************************************************)
(* Native backend: src/src/plugin/native/native_loader.rs                  *)
(***************************************************************************)

PLUGIN_ABI_VERSION == 1

\* The dispatch operations of NativePluginLoader.
NOps == {"search", "get_episodes", "get_streams"}

NIds == {"p", "q"}

\* The library files of the model: what dlopen, the ABI accessor, the
\* factory and the plugin's metadata and capabilities give for each.
NLibNames == {"unloadable", "noabi", "abi99", "nofactory", "nullfactory",
              "emptyid", "p_full", "p_search", "q_none"}

NLib(name) ==
    [loadable     |-> name # "unloadable",
     has_abi      |-> name # "noabi",
     abi          |-> IF name = "abi99" THEN 99 ELSE PLUGIN_ABI_VERSION,
     has_factory  |-> name # "nofactory",
     factory_null |-> name = "nullfactory",
     id           |-> CASE name = "p_full" -> "p" [] name = "p_search" -> "p"
                        [] name = "q_none" -> "q" [] OTHER -> "",
     caps         |-> CASE name = "p_full" -> NOps [] name = "p_search" -> {"search"}
                        [] OTHER -> {}]

\* A library handle with the plugin object made from it: the library file
\* and, in order, what was done to the handle and the object.
NNoObj == [lib |-> None, log |-> <<>>]

\* No container dropped by this call.
NNoDrop == [lib |-> None, log |-> <<>>, busy |-> FALSE]

NIdle == [pc |-> "idle", id |-> None, op |-> None, res |-> None, warns |-> {},
          obj |-> NNoObj, dropped |-> NNoDrop]

NFrame == UNCHANGED <<jvars, zvars, gvars, mvars>>

NInit ==
    /\ nplugins = <<>>
    /\ nreaders = {}
    /\ npoisoned = FALSE
    /\ naborted = FALSE
    /\ nthr = [t \in Threads |-> NIdle]

Has(log, e) == \E i \in 1..Len(log) : log[i] = e
Count(log, e) == Cardinality({i \in 1..Len(log) : log[i] = e})
Pos(log, e) == CHOOSE i \in 1..Len(log) : log[i] = e

\* The handle is still open.
HandleOpen(log) == Has(log, "dlopen") /\ ~Has(log, "dlclose")

\* A load_library_unix that returns on an ABI mismatch without dlclose.
LoadLibraryUnixLeakOnMismatch(lib) ==
    IF ~lib.loadable THEN [ok |-> FALSE, log |-> <<>>]
    ELSE IF ~lib.has_abi THEN [ok |-> FALSE, log |-> <<"dlopen", "dlclose">>]
    ELSE IF lib.abi # PLUGIN_ABI_VERSION
         THEN [ok |-> FALSE, log |-> <<"dlopen", "abi">>]
    ELSE IF ~lib.has_factory THEN [ok |-> FALSE, log |-> <<"dlopen", "abi", "dlclose">>]
    ELSE IF lib.factory_null
         THEN [ok |-> FALSE, log |-> <<"dlopen", "abi", "create", "dlclose">>]
    ELSE [ok |-> TRUE, log |-> <<"dlopen", "abi", "create">>]

\* load_library_unix (load_library_windows is the same sequence): what it
\* does to the library, in order, and whether it returns Ok.
LoadLibraryUnix(lib) ==
    IF ~lib.loadable THEN [ok |-> FALSE, log |-> <<>>]
    ELSE IF ~lib.has_abi THEN [ok |-> FALSE, log |-> <<"dlopen", "dlclose">>]
    ELSE IF lib.abi # PLUGIN_ABI_VERSION
         THEN [ok |-> FALSE, log |-> <<"dlopen", "abi", "dlclose">>]
    ELSE IF ~lib.has_factory THEN [ok |-> FALSE, log |-> <<"dlopen", "abi", "dlclose">>]
    ELSE IF lib.factory_null
         THEN [ok |-> FALSE, log |-> <<"dlopen", "abi", "create", "dlclose">>]
    ELSE [ok |-> TRUE, log |-> <<"dlopen", "abi", "create">>]

\* A library stays mapped after one of its handles is closed while another
\* open handle of the same file exists: in a container of the registry
\* (other than the one at `but`) or with a load that has not stored yet.
StillMapped(lib, but) ==
    \/ \E i \in DOMAIN nplugins \ {but} :
          nplugins[i].lib = lib /\ HandleOpen(nplugins[i].log)
    \/ \E t \in Threads : nthr[t].obj.lib = lib /\ HandleOpen(nthr[t].obj.log)

\* A Drop that closes the handle before it calls shutdown.
DropContainerCloseFirst(log, d) ==
    log \o <<"dlclose", "shutdown">> \o (IF d = "runs" THEN <<"drop">> ELSE <<>>)

\* Drop of a NativePluginContainer: Drop::drop calls shutdown, then closes
\* the handle; the fields are dropped after that, the Box<dyn AyotoPlugin>
\* among them, whose destructor is code of the library.  When the library
\* is no longer mapped that call is undefined: it runs, or the host crashes.
DropContainer(log, d) ==
    log \o <<"shutdown", "dlclose">> \o (IF d = "runs" THEN <<"drop">> ELSE <<>>)

DropOutcomes == {"runs", "abort"}

\* A dispatch call is inside the plugin object registered under id.
NInCall(id) == \E t \in Threads : nthr[t].pc = "nd_call" /\ nthr[t].id = id

\* A write() that does not wait for the read guards.
NWriteLockFreeIgnoringReaders == TRUE

\* self.plugins.write(): blocks while any caller holds a read guard (no
\* write guard is held across two steps of the model).
NWriteLockFree == nreaders = {}

\* load_plugin up to "Check if already loaded": the file and extension
\* tests, load_library_unix, get_metadata and the empty-id test.  On an
\* empty id the function returns with the plugin box dropped and the handle
\* still open.
NLoadBegin(t, name, pre_ok) ==
    /\ NFrame
    /\ ~naborted
    /\ nthr[t].pc = "idle"
    /\ IF ~pre_ok
       THEN nthr' = [nthr EXCEPT ![t] = [NIdle EXCEPT !.pc = "nl_ret", !.res = "failed"]]
       ELSE LET lib == NLib(name)
                r == LoadLibraryUnix(lib) IN
            IF ~r.ok
            THEN nthr' = [nthr EXCEPT ![t] = [NIdle EXCEPT !.pc = "nl_ret",
                            !.res = "failed", !.obj = [lib |-> name, log |-> r.log]]]
            ELSE IF lib.id = ""
            THEN nthr' = [nthr EXCEPT ![t] = [NIdle EXCEPT !.pc = "nl_ret",
                            !.res = "failed",
                            !.obj = [lib |-> name, log |-> r.log \o <<"drop">>]]]
            ELSE nthr' = [nthr EXCEPT ![t] = [NIdle EXCEPT !.pc = "nl_check",
                            !.id = lib.id, !.obj = [lib |-> name, log |-> r.log]]]
    /\ UNCHANGED <<nplugins, nreaders, npoisoned, naborted>>

\* "Check if already loaded": a read guard for the length of the test; a
\* poisoned lock skips the test.
NLoadCheckLoaded(t) ==
    /\ NFrame
    /\ ~naborted
    /\ nthr[t].pc = "nl_check"
    /\ nthr' = [nthr EXCEPT ![t] = [@ EXCEPT !.pc = "nl_store",
                   !.warns = IF ~npoisoned /\ nthr[t].id \in DOMAIN nplugins
                             THEN {"replacing"} ELSE {}]]
    /\ UNCHANGED <<nplugins, nreaders, npoisoned, naborted>>

\* "Store the plugin": under the write guard the container is inserted and
\* the container it replaces is dropped.  When the guard cannot be taken
\* the new container is dropped as the function returns.
NLoadStore(t, d) ==
    /\ NFrame
    /\ ~naborted
    /\ nthr[t].pc = "nl_store"
    /\ NWriteLockFree
    /\ LET o == nthr[t].obj
           id == nthr[t].id IN
       IF npoisoned
       THEN /\ d = "abort" => ~StillMapped(o.lib, None)
            /\ naborted' = (d = "abort")
            /\ nthr' = [nthr EXCEPT ![t] = [@ EXCEPT !.pc = "nl_ret", !.res = "failed",
                           !.obj = [@ EXCEPT !.log = DropContainer(o.log, d)]]]
            /\ UNCHANGED nplugins
       ELSE /\ nplugins' = MapInsert(nplugins, id,
                              [lib |-> o.lib, log |-> Append(o.log, "registered"),
                               caps |-> NLib(o.lib).caps, initialized |-> FALSE])
            /\ IF id \in DOMAIN nplugins
               THEN LET old == nplugins[id] IN
                    /\ d = "abort" => (old.lib # o.lib /\ ~StillMapped(old.lib, id))
                    /\ naborted' = (d = "abort")
                    /\ nthr' = [nthr EXCEPT ![t] = [@ EXCEPT !.pc = "nl_init",
                                   !.obj = NNoObj,
                                   !.dropped = [lib |-> old.lib, busy |-> NInCall(id),
                                                log |-> DropContainer(old.log, d)]]]
               ELSE /\ d = "runs"
                    /\ nthr' = [nthr EXCEPT ![t] = [@ EXCEPT !.pc = "nl_init",
                                                     !.obj = NNoObj]]
                    /\ UNCHANGED naborted
    /\ UNCHANGED <<nreaders, npoisoned>>

\* container.initialized after initialize returned: set on success only.
InitializedAfterAlwaysSet(was, out) == TRUE

InitializedAfter(was, out) == was \/ out = "ok"

\* initialize_plugin, called by load_plugin after the store: a write guard,
\* get_mut(plugin_id), initialize of whatever container holds the id now.
\* A failure is a warning of the load.  A panic of the plugin unwinds
\* through the guard and poisons the lock.
NLoadInitialize(t, out) ==
    /\ NFrame
    /\ ~naborted
    /\ nthr[t].pc = "nl_init"
    /\ NWriteLockFree
    /\ LET id == nthr[t].id IN
       IF npoisoned \/ id \notin DOMAIN nplugins
       THEN /\ out = "fail"
            /\ nthr' = [nthr EXCEPT ![t] = [@ EXCEPT !.pc = "nl_ret", !.res = "ok",
                                             !.warns = @ \cup {"init"}]]
            /\ UNCHANGED <<nplugins, npoisoned>>
       ELSE /\ nplugins' = [nplugins EXCEPT ![id].log = Append(@, "initialize"),
                                            ![id].initialized = InitializedAfter(@, out)]
            /\ npoisoned' = (out = "panic")
            /\ nthr' = [nthr EXCEPT ![t] =
                 CASE out = "ok"   -> [@ EXCEPT !.pc = "nl_ret", !.res = "ok"]
                   [] out = "fail" -> [@ EXCEPT !.pc = "nl_ret", !.res = "ok",
                                                !.warns = @ \cup {"init"}]
                   [] OTHER        -> [@ EXCEPT !.pc = "n_panicked", !.res = "panic"]]
    /\ UNCHANGED <<nreaders, naborted>>

\* unload_plugin: under the write guard the container is removed and dropped.
NUnloadPlugin(t, id, d) ==
    /\ NFrame
    /\ ~naborted
    /\ nthr[t].pc = "idle"
    /\ NWriteLockFree
    /\ IF npoisoned
       THEN /\ d = "runs"
            /\ nthr' = [nthr EXCEPT ![t] = [NIdle EXCEPT !.pc = "nu_ret", !.id = id,
                                             !.res = "lock_error"]]
            /\ UNCHANGED <<nplugins, naborted>>
       ELSE IF id \notin DOMAIN nplugins
       THEN /\ d = "runs"
            /\ nthr' = [nthr EXCEPT ![t] = [NIdle EXCEPT !.pc = "nu_ret", !.id = id,
                                             !.res = "not_found"]]
            /\ UNCHANGED <<nplugins, naborted>>
       ELSE LET old == nplugins[id] IN
            /\ d = "abort" => ~StillMapped(old.lib, id)
            /\ nplugins' = MapRemove(nplugins, id)
            /\ naborted' = (d = "abort")
            /\ nthr' = [nthr EXCEPT ![t] = [NIdle EXCEPT !.pc = "nu_ret", !.id = id,
                           !.res = "ok",
                           !.dropped = [lib |-> old.lib, busy |-> NInCall(id),
                                        log |-> DropContainer(old.log, d)]]]
    /\ UNCHANGED <<nreaders, npoisoned>>

\* plugin_search, plugin_get_episodes, plugin_get_streams: a read guard,
\* get(plugin_id), then the plugin's method; the guard is held until the
\* function returns.
NDispatchBegin(t, id, op) ==
    /\ NFrame
    /\ ~naborted
    /\ nthr[t].pc = "idle"
    /\ IF npoisoned
       THEN /\ nthr' = [nthr EXCEPT ![t] = [NIdle EXCEPT !.pc = "nd_ret", !.id = id,
                                             !.op = op, !.res = "lock_error"]]
            /\ UNCHANGED nreaders
       ELSE IF id \notin DOMAIN nplugins
       THEN /\ nthr' = [nthr EXCEPT ![t] = [NIdle EXCEPT !.pc = "nd_ret", !.id = id,
                                             !.op = op, !.res = "not_found"]]
            /\ nreaders' = nreaders \cup {t}
       ELSE /\ nthr' = [nthr EXCEPT ![t] = [NIdle EXCEPT !.pc = "nd_call", !.id = id,
                                             !.op = op]]
            /\ nreaders' = nreaders \cup {t}
    /\ UNCHANGED <<nplugins, npoisoned, naborted>>

\* The plugin's method returns an FfiResult: Ok(value) or Err(error).
NDispatchCall(t, ok) ==
    /\ NFrame
    /\ ~naborted
    /\ nthr[t].pc = "nd_call"
    /\ nthr' = [nthr EXCEPT ![t] = [@ EXCEPT !.pc = "nd_ret",
                                     !.res = IF ok THEN "ok" ELSE "plugin_err"]]
    /\ UNCHANGED <<nplugins, nreaders, npoisoned, naborted>>

\* The method returns (or its caller has unwound): a read guard is dropped.
NReturn(t) ==
    /\ NFrame
    /\ ~naborted
    /\ nthr[t].pc \in {"nl_ret", "nu_ret", "nd_ret", "n_panicked"}
    /\ nreaders' = nreaders \ {t}
    /\ nthr' = [nthr EXCEPT ![t] = NIdle]
    /\ UNCHANGED <<nplugins, npoisoned, naborted>>

NNext ==
    \/ \E t \in Threads, name \in NLibNames, ok \in BOOLEAN : NLoadBegin(t, name, ok)
    \/ \E t \in Threads : NLoadCheckLoaded(t)
    \/ \E t \in Threads, d \in DropOutcomes : NLoadStore(t, d)
    \/ \E t \in Threads, out \in {"ok", "fail", "panic"} : NLoadInitialize(t, out)
    \/ \E t \in Threads, id \in NIds, d \in DropOutcomes : NUnloadPlugin(t, id, d)
    \/ \E t \in Threads, id \in NIds, op \in NOps : NDispatchBegin(t, id, op)
    \/ \E t \in Threads, ok \in BOOLEAN : NDispatchCall(t, ok)
    \/ \E t \in Threads : NReturn(t)

(***************************************************************************)
(* One cross-boundary call into a guest: src/src/plugin/zpe/runtime.rs     *)
(* call_json_function, write_string, read_string, and the envelope test of *)
(* the typed wrappers (search, get_popular, ...).  The widths are scaled:  *)
(* an i32 has HalfBits bits, an i64 and a usize have twice as many.        *)
(***************************************************************************)

\* Bits of an i32 of the model.
HalfBits == 3

\* Bytes of the guest's linear memory (at most 2^HalfBits, as a 32-bit guest).
MemSize == 6

\* Lengths of the request payloads (input_json.len()).
GInputLens == {1, 2}

RECURSIVE Pow2(_)
Pow2(n) == IF n = 0 THEN 1 ELSE 2 * Pow2(n - 1)

I32 == (-Pow2(HalfBits - 1)) .. (Pow2(HalfBits - 1) - 1)
I64 == (-Pow2(2 * HalfBits - 1)) .. (Pow2(2 * HalfBits - 1) - 1)

\* isize::MAX, the largest capacity of a Vec<u8>.
ISizeMax == Pow2(2 * HalfBits - 1) - 1

\* `x as iN` of an integer: the low `bits` bits, read as two's complement.
ToSigned(x, bits) ==
    LET m == x % Pow2(bits) IN
    IF m >= Pow2(bits - 1) THEN m - Pow2(bits) ELSE m

\* `x as usize` of an i32: sign extension to the width of a usize.
AsUsize(x) == IF x < 0 THEN x + Pow2(2 * HalfBits) ELSE x

\* (result >> 32) as i32 and (result & 0xFFFFFFFF) as i32.
UnpackPtr(result) == ToSigned(result \div Pow2(HalfBits), HalfBits)
UnpackLen(result) == ToSigned(result % Pow2(HalfBits), HalfBits)

\* Memory::write and Memory::read: Err unless the range lies in the memory.
MemoryRangeOk(off, len) == off + len <= MemSize

\* A write_string that returns Ok when memory.write failed.
WriteStringIgnoringFailure(ptr, len) ==
    [ok |-> TRUE, off |-> AsUsize(ptr), len |-> len,
     done |-> MemoryRangeOk(AsUsize(ptr), len)]

\* write_string after allocate returned ptr: memory.write at ptr as usize;
\* the `?` returns the Err of a failed write.
WriteString(ptr, len) ==
    [ok |-> MemoryRangeOk(AsUsize(ptr), len), off |-> AsUsize(ptr), len |-> len,
     done |-> MemoryRangeOk(AsUsize(ptr), len)]

\* read_string: vec![0u8; len as usize] panics with a capacity overflow
\* above isize::MAX; memory.read fails outside the memory.
ReadString(ptr, len) ==
    IF AsUsize(len) > ISizeMax THEN "panic"
    ELSE IF ~MemoryRangeOk(AsUsize(ptr), AsUsize(len)) THEN "err"
    ELSE "read"

\* The host function log_message(ptr, len): the slice
\* data[ptr as usize..(ptr + len) as usize] panics when it is out of range.
LogMessage(ptr, len) ==
    LET start == AsUsize(ptr)
        end == AsUsize(ToSigned(ptr + len, HalfBits)) IN
    IF start <= end /\ end <= MemSize THEN "ok" ELSE "panic"

\* What the bytes of a result are: not UTF-8, not JSON, or a JSON object.
\* Of an object, each of the fields success, value and error is missing,
\* null, of the type ZpeResult<T> gives it ("true" and "false" for success,
\* "typed" for a value that deserializes as T and for an error string), or
\* of another type.
GData ==
    {[text |-> t, success |-> "missing", value |-> "missing", error |-> "missing"] :
        t \in {"bad_utf8", "bad_json"}}
    \cup {[text |-> "object", success |-> s, value |-> v, error |-> e] :
             s \in {"missing", "true", "false", "ill_typed"},
             v \in {"missing", "null", "typed", "ill_typed"},
             e \in {"missing", "null", "typed", "ill_typed"}}

\* Result<T, String> of a typed wrapper; the value and the error text of
\* the envelope are written "value" and "error text".
GResult(ok, value, err) == [ok |-> ok, value |-> value, err |-> err]

\* A typed wrapper that returns the value of an envelope whenever there is
\* one, whatever the success flag.
EnvelopeValueFirst(data) ==
    IF data.text = "bad_utf8" THEN GResult(FALSE, "", "Invalid UTF-8")
    ELSE IF \/ data.text = "bad_json"
            \/ data.success \notin {"true", "false"}
            \/ data.value = "ill_typed"
            \/ data.error = "ill_typed"
    THEN GResult(FALSE, "", "Invalid search result")
    ELSE IF data.value = "typed" THEN GResult(TRUE, "value", "")
    ELSE IF data.success = "true"
    THEN GResult(FALSE, "", "No value in success result")
    ELSE GResult(FALSE, "", IF data.error = "typed" THEN "error text"
                            ELSE "Unknown error")

\* from_utf8 of read_string, then serde_json::from_str as ZpeResult<T> (a
\* bool success is required; value and error are Options, None when the
\* field is missing or null; a field of another type fails the parse), then
\* the success test of a typed wrapper.
Envelope(data) ==
    IF data.text = "bad_utf8" THEN GResult(FALSE, "", "Invalid UTF-8")
    ELSE IF \/ data.text = "bad_json"
            \/ data.success \notin {"true", "false"}
            \/ data.value = "ill_typed"
            \/ data.error = "ill_typed"
    THEN GResult(FALSE, "", "Invalid search result")
    ELSE IF data.success = "true"
    THEN IF data.value = "typed" THEN GResult(TRUE, "value", "")
         ELSE GResult(FALSE, "", "No value in success result")
    ELSE GResult(FALSE, "", IF data.error = "typed" THEN "error text"
                            ELSE "Unknown error")

GIdle == [pc |-> "idle", len |-> 0, ptr |-> 0, packed |-> 0, rptr |-> 0, rlen |-> 0,
          res |-> None, log |-> <<>>,
          data |-> [text |-> "none", success |-> "missing", value |-> "missing",
                    error |-> "missing"],
          out |-> GResult(FALSE, "", "")]

GFrame == UNCHANGED <<jvars, zvars, nvars, mvars>>

GInit ==
    /\ gcall = GIdle
    /\ gpoisoned = FALSE

\* What the host did to the guest: allocate(len) that returned a (0 when it
\* trapped), write or read of len bytes at offset a, entry(a, len).
GEvent(ev, a, len) == [ev |-> ev, a |-> a, len |-> len]

GFail(c) == [c EXCEPT !.pc = "g_ret", !.res = "err"]

\* A typed wrapper builds its request and enters call_json_function.  It is
\* reached through a dispatch, which holds the registry guard.
GCallBegin(len) ==
    /\ GFrame
    /\ gcall.pc = "idle"
    /\ ~gpoisoned
    /\ gcall' = [GIdle EXCEPT !.pc = "g_alloc", !.len = len]
    /\ UNCHANGED gpoisoned

\* write_string, first half: the guest's allocate export is looked up and
\* called with the length.  how: the export is "missing", the call is a
\* "trap", or it returns ("ret") the i32 ret.
GAllocate(how, ret) ==
    /\ GFrame
    /\ gcall.pc = "g_alloc"
    /\ how # "ret" => ret = 0
    /\ gcall' =
         IF how = "missing" THEN GFail(gcall)
         ELSE IF how = "trap"
         THEN GFail([gcall EXCEPT !.log = Append(@, GEvent("allocate", 0, gcall.len))])
         ELSE [gcall EXCEPT !.pc = "g_write", !.ptr = ret,
                 !.log = Append(@, GEvent("allocate", ret, gcall.len))]
    /\ UNCHANGED gpoisoned

\* write_string, second half: memory.write of the payload.
GWrite ==
    /\ GFrame
    /\ gcall.pc = "g_write"
    /\ LET w == WriteString(gcall.ptr, gcall.len)
           l == IF w.done
                THEN Append(gcall.log, GEvent("write", w.off, w.len))
                ELSE gcall.log IN
       gcall' = IF w.ok THEN [gcall EXCEPT !.pc = "g_func", !.log = l]
                ELSE GFail([gcall EXCEPT !.log = l])
    /\ UNCHANGED gpoisoned

\* get_typed_func of the entry point: Err when it is missing or mistyped.
GGetFunc(found) ==
    /\ GFrame
    /\ gcall.pc = "g_func"
    /\ gcall' = IF found THEN [gcall EXCEPT !.pc = "g_call"] ELSE GFail(gcall)
    /\ UNCHANGED gpoisoned

\* The guest, inside its entry point, calls the host's log_message.
GLogMessage(ptr, len) ==
    /\ GFrame
    /\ gcall.pc = "g_call"
    /\ Len(gcall.log) = 2
    /\ IF LogMessage(ptr, len) = "panic"
       THEN /\ gcall' = [gcall EXCEPT !.pc = "g_panicked", !.res = "panic",
                           !.log = Append(@, GEvent("entry", gcall.ptr, gcall.len))]
            /\ gpoisoned' = TRUE
       ELSE UNCHANGED <<gcall, gpoisoned>>

\* func.call(input_ptr, input_len), then the unpacking and the null test.
\* trap: the call is an Err; otherwise out is the i64 the entry point returns.
GEntry(trap, out) ==
    /\ GFrame
    /\ gcall.pc = "g_call"
    /\ trap => out = 0
    /\ LET l == Append(gcall.log, GEvent("entry", gcall.ptr, gcall.len)) IN
       gcall' =
         IF trap THEN GFail([gcall EXCEPT !.log = l])
         ELSE IF UnpackPtr(out) = 0
         THEN GFail([gcall EXCEPT !.log = l, !.packed = out])
         ELSE [gcall EXCEPT !.pc = "g_read", !.log = l, !.packed = out,
                            !.rptr = UnpackPtr(out), !.rlen = UnpackLen(out)]
    /\ UNCHANGED gpoisoned

\* read_string of the result, then the envelope test of the wrapper.
GReadResult(data) ==
    /\ GFrame
    /\ gcall.pc = "g_read"
    /\ LET r == ReadString(gcall.rptr, gcall.rlen) IN
       CASE r = "panic" ->
               /\ gcall' = [gcall EXCEPT !.pc = "g_panicked", !.res = "panic"]
               /\ gpoisoned' = TRUE
         [] r = "err" ->
               /\ gcall' = GFail(gcall)
               /\ UNCHANGED gpoisoned
         [] OTHER ->
               /\ gcall' = [gcall EXCEPT !.pc = "g_ret",
                              !.res = IF Envelope(data).ok THEN "ok" ELSE "err",
                              !.data = data, !.out = Envelope(data),
                              !.log = Append(@, GEvent("read", AsUsize(gcall.rptr),
                                                        AsUsize(gcall.rlen)))]
               /\ UNCHANGED gpoisoned

\* The wrapper returns, or the panic has unwound to the caller.
GReturn ==
    /\ GFrame
    /\ gcall.pc \in {"g_ret", "g_panicked"}
    /\ gcall' = GIdle
    /\ UNCHANGED gpoisoned

GNext ==
    \/ \E len \in GInputLens : GCallBegin(len)
    \/ \E how \in {"missing", "trap", "ret"}, ret \in I32 : GAllocate(how, ret)
    \/ GWrite
    \/ \E found \in BOOLEAN : GGetFunc(found)
    \/ \E ptr \in I32, len \in I32 : GLogMessage(ptr, len)
    \/ \E trap \in BOOLEAN, out \in I64 : GEntry(trap, out)
    \/ \E data \in GData : GReadResult(data)
    \/ GReturn

(***************************************************************************)
(* Manifests, versions and the checks the loaders make on them:            *)
(* src/src/plugin/manifest.rs, zpe/types.rs, loader.rs, zpe/loader.rs,     *)
(* native/native_loader.rs.  A string is the sequence of its characters.   *)
(***************************************************************************)

\* u32::MAX, scaled: the largest number a version field can hold.
U32Max == 12

Digits == <<"0", "1", "2", "3", "4", "5", "6", "7", "8", "9">>
\* char::to_digit(10); -1 stands for None.
DigitVal(c) ==
    IF \E d \in 1..10 : Digits[d] = c
    THEN (CHOOSE d \in 1..10 : Digits[d] = c) - 1 ELSE -1

\* char::is_alphanumeric on the characters that occur in the modelled
\* strings.
IsAlphanumeric(c) == DigitVal(c) >= 0 \/ c \in {"a", "b", "c", "e", "n", "r", "t", "x"}

\* u32's Display: decimal digits without a leading zero.
RECURSIVE U32ToString(_)
U32ToString(n) ==
    IF n < 10 THEN <<Digits[n + 1]>>
    ELSE U32ToString(n \div 10) \o <<Digits[(n % 10) + 1]>>

\* The digits of u32::from_str, most significant first, with its overflow
\* test; -1 stands for Err.
RECURSIVE ParseDigits(_, _)
ParseDigits(s, acc) ==
    IF s = <<>> THEN acc
    ELSE IF DigitVal(Head(s)) < 0 THEN -1
    ELSE LET n == acc * 10 + DigitVal(Head(s)) IN
         IF n > U32Max THEN -1 ELSE ParseDigits(Tail(s), n)

\* str::parse::<u32>: an optional '+', then at least one digit, nothing
\* else, no overflow; -1 stands for Err.
ParseU32(s) ==
    LET digits == IF s # <<>> /\ Head(s) = "+" THEN Tail(s) ELSE s IN
    IF digits = <<>> THEN -1 ELSE ParseDigits(digits, 0)

\* str::find(c): the index of the first c, 0 for None.
Find(s, c) ==
    IF \E i \in 1..Len(s) : s[i] = c
    THEN CHOOSE i \in 1..Len(s) : s[i] = c /\ \A j \in 1..(i - 1) : s[j] # c
    ELSE 0

\* str::split(c).collect(): the pieces between the occurrences of c; a string
\* without c, the empty string included, is one piece.
RECURSIVE Split(_, _)
Split(s, c) ==
    LET i == Find(s, c) IN
    IF i = 0 THEN <<s>>
    ELSE <<SubSeq(s, 1, i - 1)>> \o Split(SubSeq(s, i + 1, Len(s)), c)

\* Option<String>.
NoneString == [some |-> FALSE, s |-> <<>>]
SomeString(s) == [some |-> TRUE, s |-> s]

\* struct SemVer.
SemVer(major, minor, patch, prerelease) ==
    [major |-> major, minor |-> minor, patch |-> patch, prerelease |-> prerelease]

\* Result<SemVer, String>.
ParseResult(ok, err, v) == [ok |-> ok, err |-> err, v |-> v]

\* The middle of SemVer::parse: the version part, split at its dots, must
\* give three parts, each a u32; the first failure gives the error.
SemVerOfParts(parts, prerelease) ==
    IF Len(parts) # 3
    THEN ParseResult(FALSE, "Invalid version format", SemVer(0, 0, 0, NoneString))
    ELSE IF ParseU32(parts[1]) < 0
    THEN ParseResult(FALSE, "Invalid major version", SemVer(0, 0, 0, NoneString))
    ELSE IF ParseU32(parts[2]) < 0
    THEN ParseResult(FALSE, "Invalid minor version", SemVer(0, 0, 0, NoneString))
    ELSE IF ParseU32(parts[3]) < 0
    THEN ParseResult(FALSE, "Invalid patch version", SemVer(0, 0, 0, NoneString))
    ELSE ParseResult(TRUE, "", SemVer(ParseU32(parts[1]), ParseU32(parts[2]),
                                      ParseU32(parts[3]), prerelease))

\* The head of SemVer::parse: idx is the place of the '-' that separates the
\* prerelease, 0 when there is none.
SemVerCutAt(version, idx) ==
    IF idx > 0
    THEN SemVerOfParts(Split(SubSeq(version, 1, idx - 1), "."),
                       SomeString(SubSeq(version, idx + 1, Len(version))))
    ELSE SemVerOfParts(Split(version, "."), NoneString)

\* SemVer::parse with the string cut at its last '-'.
SemVerParseAtLastDash(version) ==
    SemVerCutAt(version,
                IF \E i \in 1..Len(version) : version[i] = "-"
                THEN CHOOSE i \in 1..Len(version) :
                        version[i] = "-" /\ \A j \in (i + 1)..Len(version) : version[j] # "-"
                ELSE 0)

\* SemVer::parse: the string is cut at its first '-' into the version part
\* and the prerelease; the version part must be three u32s between dots.
SemVerParse(version) == SemVerCutAt(version, Find(version, "-"))

\* impl Display for SemVer: "{}.{}.{}", then '-' and the prerelease if any.
SemVerDisplay(v) ==
    U32ToString(v.major) \o <<".">> \o U32ToString(v.minor) \o <<".">> \o U32ToString(v.patch)
      \o (IF v.prerelease.some THEN <<"-">> \o v.prerelease.s ELSE <<>>)

\* SemVer::is_compatible_with: the majors are equal.
IsCompatibleWith(self, target) == self.major = target.major

\* SemVer::is_at_least with the patch numbers ignored.
IsAtLeastIgnoringPatch(self, target) ==
    IF self.major # target.major THEN self.major > target.major
    ELSE self.minor >= target.minor

\* SemVer::is_at_least: major, then minor, then patch; the prerelease is
\* not read.
IsAtLeast(self, target) ==
    IF self.major # target.major THEN self.major > target.major
    ELSE IF self.minor # target.minor THEN self.minor > target.minor
    ELSE self.patch >= target.patch

\* The builds that are modelled: env!("CARGO_PKG_VERSION") and the
\* TargetPlatform that detect_platform returns for the cfg(target_os) (never
\* desktop or mobile).
Builds ==
    {[version |-> v, platform |-> p] :
        v \in {<<"1", ".", "2", ".", "0">>, <<"2", ".", "0", ".", "1">>},
        p \in {"linux", "windows"}}

\* The tests of is_compatible_with_ayoto on the parsed versions, `?`
\* included.
CompatibleVersions(ayoto, target, has_max, max) ==
    IF ~ayoto.ok \/ ~target.ok THEN "err"
    ELSE IF ~IsCompatibleWith(ayoto.v, target.v) THEN "false"
    ELSE IF ~IsAtLeast(ayoto.v, target.v) THEN "false"
    ELSE IF has_max /\ ~max.ok THEN "err"
    ELSE IF has_max /\ ~IsCompatibleWith(ayoto.v, max.v) THEN "false"
    ELSE "true"

\* PluginManifest::is_compatible_with_ayoto as Result<bool, String>:
\* "err" when a version does not parse; otherwise the host must have the
\* target's major, be at least the target, and have the major of the
\* maximum version if there is one.
IsCompatibleWithAyoto(m, ayoto_version) ==
    CompatibleVersions(SemVerParse(ayoto_version),
                       SemVerParse(m.target_ayoto_version),
                       m.max_ayoto_version.some,
                       SemVerParse(m.max_ayoto_version.s))

\* PluginManifest::supports_platform with the empty list taken literally.
SupportsPlatformNoDefault(m, platform) ==
    "universal" \in m.platforms \/ platform \in m.platforms

\* PluginManifest::supports_platform: no platforms means all of them.
SupportsPlatform(m, platform) ==
    IF m.platforms = {} THEN TRUE
    ELSE "universal" \in m.platforms \/ platform \in m.platforms

\* PluginManifest::validate: errors for an empty or ill-formed id, an empty
\* name, a version, target version or maximum version that SemVer::parse
\* rejects, and a scraping config with an empty base_url; warnings for an
\* unknown stream format, no capability, and the scraping capability without
\* a scraping config (an Option of its base_url).
PluginManifestValidate(m) ==
    LET errors ==
            (IF m.id = <<>> THEN {"Plugin ID is required"}
             ELSE IF ~\A i \in 1..Len(m.id) :
                        IsAlphanumeric(m.id[i]) \/ m.id[i] = "-" \/ m.id[i] = "_"
                  THEN {"Plugin ID must contain only alphanumeric characters, hyphens, and underscores"}
                  ELSE {})
            \cup (IF m.name = <<>> THEN {"Plugin name is required"} ELSE {})
            \cup (IF ~SemVerParse(m.version).ok THEN {"Invalid plugin version"} ELSE {})
            \cup (IF ~SemVerParse(m.target_ayoto_version).ok
                  THEN {"Invalid target Ayoto version"} ELSE {})
            \cup (IF m.max_ayoto_version.some /\ ~SemVerParse(m.max_ayoto_version.s).ok
                  THEN {"Invalid max Ayoto version"} ELSE {})
            \cup (IF m.scraping /\ m.scraping_config.some
                     /\ m.scraping_config.s = <<>>
                  THEN {"Scraping config requires a base_url"} ELSE {})
        warnings ==
            (IF m.formats \ {"m3u8", "mp4", "mkv", "webm", "torrent"} # {}
                  THEN {"Unknown stream format"} ELSE {})
            \cup (IF m.capabilities = {}
                  THEN {"Plugin has no capabilities enabled"} ELSE {})
            \cup (IF m.scraping /\ ~m.scraping_config.some
                  THEN {"Scraping capability is enabled but no scraping config provided"}
                  ELSE {})
    IN  [is_valid |-> errors = {}, errors |-> errors, warnings |-> warnings]

\* struct PluginCompatibility as check_compatibility fills it: the warning
\* is pushed when the version is incompatible and the host's major is above
\* the target's (a version that does not parse counts as major 0).
PluginCompatibility(is_compatible, current, target, platform_compatible) ==
    [is_compatible |-> is_compatible,
     platform_compatible |-> platform_compatible,
     warnings |-> IF ~is_compatible
                     /\ (IF current.ok THEN current.v.major ELSE 0)
                          > (IF target.ok THEN target.v.major ELSE 0)
                  THEN {"This plugin was built for an older Ayoto"} ELSE {}]

\* PluginLoader::check_compatibility: the verdict on the version (an Err
\* counts as incompatible) and the verdict on the platform.
CheckCompatibility(m, ayoto_version, current_platform) ==
    PluginCompatibility(IsCompatibleWithAyoto(m, ayoto_version) = "true",
                        SemVerParse(ayoto_version),
                        SemVerParse(m.target_ayoto_version),
                        SupportsPlatform(m, current_platform))

\* The tail of parse_version: three parts, each a u32; -1 stands for None,
\* otherwise the major.
MajorOfParts(parts) ==
    IF Len(parts) # 3 THEN -1
    ELSE IF ParseU32(parts[1]) < 0 \/ ParseU32(parts[2]) < 0 \/ ParseU32(parts[3]) < 0
         THEN -1
    ELSE ParseU32(parts[1])

\* parse_version of check_version_compatibility: the text before the first
\* '-' is split at its dots.
ParseVersionMajor(v) == MajorOfParts(Split(Split(v, "-")[1], "."))

\* check_version_compatibility of the ZPE loader: both versions parse and the
\* majors are equal.
CheckVersionCompatibility(current, target_version) ==
    /\ ParseVersionMajor(current) >= 0
    /\ ParseVersionMajor(target_version) >= 0
    /\ ParseVersionMajor(current) = ParseVersionMajor(target_version)

\* check_version_compatibility of the native loader: the same test.
NativeCheckVersionCompatibility(current, target_version) ==
    /\ ParseVersionMajor(current) >= 0
    /\ ParseVersionMajor(target_version) >= 0
    /\ ParseVersionMajor(current) = ParseVersionMajor(target_version)

ZPE_ABI_VERSION == 1

\* ZpeManifest::validate with the ABI difference reported as an error.
ZpeManifestValidateAbiError(m) ==
    LET errors ==
            (IF m.id = <<>> THEN {"Plugin ID is required"} ELSE {})
            \cup (IF m.name = <<>> THEN {"Plugin name is required"} ELSE {})
            \cup (IF m.version = <<>> THEN {"Plugin version is required"} ELSE {})
            \cup (IF m.abi_version # ZPE_ABI_VERSION
                  THEN {"Plugin ABI version differs from current version"} ELSE {})
    IN  [valid |-> errors = {}, errors |-> errors, warnings |-> {}]

\* ZpeManifest::validate: errors for an empty id, name or version; a warning
\* for an abi_version other than ZPE_ABI_VERSION.
ZpeManifestValidate(m) ==
    LET errors ==
            (IF m.id = <<>> THEN {"Plugin ID is required"} ELSE {})
            \cup (IF m.name = <<>> THEN {"Plugin name is required"} ELSE {})
            \cup (IF m.version = <<>> THEN {"Plugin version is required"} ELSE {})
        warnings ==
            IF m.abi_version # ZPE_ABI_VERSION
            THEN {"Plugin ABI version differs from current version"} ELSE {}
    IN  [valid |-> errors = {}, errors |-> errors, warnings |-> warnings]

\* The manifests of the modelled plugin files: one that passes every check,
\* and that one changed in one field.
JsonManifestBase ==
    [id |-> <<"a">>, name |-> <<"x">>,
     version |-> <<"1", ".", "0", ".", "0">>,
     target_ayoto_version |-> <<"1", ".", "0", ".", "0">>,
     max_ayoto_version |-> NoneString,
     formats |-> {"mp4"}, capabilities |-> {"search"},
     scraping |-> FALSE, scraping_config |-> NoneString,
     platforms |-> {}]

JsonManifests ==
    LET b == JsonManifestBase IN
    {b,
     [b EXCEPT !.id = <<"b", "_", "2">>],
     [b EXCEPT !.id = <<>>],
     [b EXCEPT !.id = <<"a", " ", "b">>],
     [b EXCEPT !.name = <<>>],
     [b EXCEPT !.version = <<"1", ".", "x", ".", "0">>],
     [b EXCEPT !.version = <<"1", ".", "0", ".", "0", "-", "r", "c">>],
     [b EXCEPT !.target_ayoto_version = <<"1", ".", "0">>],
     [b EXCEPT !.target_ayoto_version = <<"2", ".", "0", ".", "0">>],
     [b EXCEPT !.target_ayoto_version = <<"1", ".", "9", ".", "0">>],
     [b EXCEPT !.target_ayoto_version = <<"3", ".", "0", ".", "0">>],
     [b EXCEPT !.max_ayoto_version = SomeString(<<"2", ".", "0", ".", "0">>)],
     [b EXCEPT !.max_ayoto_version = SomeString(<<"x">>)],
     [b EXCEPT !.formats = {"avi"}],
     [b EXCEPT !.capabilities = {}],
     [b EXCEPT !.scraping = TRUE],
     [b EXCEPT !.scraping = TRUE, !.scraping_config = SomeString(<<>>)],
     [b EXCEPT !.scraping = TRUE, !.scraping_config = SomeString(<<"x">>)],
     [b EXCEPT !.scraping_config = SomeString(<<>>)],
     [b EXCEPT !.platforms = {"universal"}],
     [b EXCEPT !.platforms = {"linux"}],
     [b EXCEPT !.platforms = {"windows", "macos"}],
     [b EXCEPT !.platforms = {"desktop"}],
     [b EXCEPT !.platforms = {"android", "universal"}]}

ZpeManifestBase ==
    [id |-> <<"a">>, name |-> <<"x">>,
     version |-> <<"1", ".", "0", ".", "0">>,
     target_ayoto_version |-> <<"1", ".", "0", ".", "0">>,
     capabilities |-> {"search"},
     abi_version |-> 1,
     icon |-> SomeString(<<"u", "r", "l">>)]

ZpeManifests ==
    LET b == ZpeManifestBase IN
    {b,
     [b EXCEPT !.icon = NoneString],
     [b EXCEPT !.id = <<"b", "_", "2">>],
     [b EXCEPT !.id = <<>>],
     [b EXCEPT !.id = <<"a", " ", "b">>],
     [b EXCEPT !.name = <<>>],
     [b EXCEPT !.version = <<>>],
     [b EXCEPT !.version = <<"1", ".", "x", ".", "0">>],
     [b EXCEPT !.target_ayoto_version = <<"2", ".", "0", ".", "0">>],
     [b EXCEPT !.target_ayoto_version = <<"3", ".", "0", ".", "0">>],
     [b EXCEPT !.target_ayoto_version = <<"1", ".", "9", ".", "0">>],
     [b EXCEPT !.target_ayoto_version = <<"n", "e", "x", "t">>],
     [b EXCEPT !.abi_version = 2],
     [b EXCEPT !.abi_version = 0]}

\* Supported icon file names and their MIME types, in the order in which
\* they are looked for.
ICON_FILES ==
    <<[filename |-> "icon.png",  mime_type |-> "image/png"],
      [filename |-> "icon.ico",  mime_type |-> "image/x-icon"],
      [filename |-> "icon.jpg",  mime_type |-> "image/jpeg"],
      [filename |-> "icon.jpeg", mime_type |-> "image/jpeg"],
      [filename |-> "icon.svg",  mime_type |-> "image/svg+xml"],
      [filename |-> "icon.webp", mime_type |-> "image/webp"]>>

MAX_ICON_SIZE == 1048576

\* read_icon_from_archive without the test of the size against the cap.
ReadIconFromArchiveNoCap(icons) ==
    LET usable == {i \in 1..Len(ICON_FILES) :
                     /\ ICON_FILES[i].filename \in DOMAIN icons
                     /\ icons[ICON_FILES[i].filename].size # 0
                     /\ icons[ICON_FILES[i].filename].readable}
    IN  IF usable = {} THEN NoneString
        ELSE LET i == CHOOSE i \in usable : \A j \in usable : i <= j IN
             SomeString(<<"data:", ICON_FILES[i].mime_type, ";base64,",
                          ICON_FILES[i].filename>>)

\* read_icon_from_archive on the icon entries of an archive (file name to
\* the size the entry declares and whether read_to_end gives its bytes, at
\* least one): the first entry in the order of ICON_FILES that is not empty,
\* not larger than MAX_ICON_SIZE and can be read, as a data URI of its MIME
\* type and its bytes in base64 (the file name stands for them); an entry
\* that fails a test is passed over for the next name.
ReadIconFromArchive(icons) ==
    LET usable == {i \in 1..Len(ICON_FILES) :
                     /\ ICON_FILES[i].filename \in DOMAIN icons
                     /\ icons[ICON_FILES[i].filename].size # 0
                     /\ icons[ICON_FILES[i].filename].size <= MAX_ICON_SIZE
                     /\ icons[ICON_FILES[i].filename].readable}
    IN  IF usable = {} THEN NoneString
        ELSE LET i == CHOOSE i \in usable : \A j \in usable : i <= j IN
             SomeString(<<"data:", ICON_FILES[i].mime_type, ";base64,",
                          ICON_FILES[i].filename>>)

\* "Try to read embedded icon file": the manifest as read, with its icon
\* replaced when read_icon_from_archive returns one.
WithEmbeddedIcon(m, icons) ==
    IF ReadIconFromArchive(icons).some
    THEN [m EXCEPT !.icon = ReadIconFromArchive(icons)]
    ELSE m

\* The modelled archives, as manifest and icon entries: every manifest
\* without an icon entry, and the base manifest with icon entries of the
\* sizes around the limits, alone, in pairs, and with bytes that cannot be
\* read; the manifest without a declared icon with an entry over and at the
\* cap.
ZpeArchives ==
    LET entry(size, readable) == [size |-> size, readable |-> readable]
        too_large == ("icon.png" :> entry(2 * MAX_ICON_SIZE, TRUE))
        largest == ("icon.png" :> entry(MAX_ICON_SIZE, TRUE))
        icon_sets ==
            {too_large, largest,
             ("icon.png" :> entry(MAX_ICON_SIZE + 1, TRUE)),
             ("icon.svg" :> entry(1, TRUE)),
             ("icon.ico" :> entry(0, TRUE)),
             (too_large @@ "icon.ico" :> entry(5, TRUE)),
             ("icon.jpeg" :> entry(7, TRUE) @@ "icon.webp" :> entry(9, TRUE)),
             ("icon.png" :> entry(5, FALSE) @@ "icon.svg" :> entry(5, TRUE))}
    IN  {[m |-> m, icons |-> <<>>] : m \in ZpeManifests}
        \cup {[m |-> ZpeManifestBase, icons |-> i] : i \in icon_sets}
        \cup {[m |-> [ZpeManifestBase EXCEPT !.icon = NoneString], icons |-> i] :
                 i \in {too_large, largest}}

\* What the modelled archives hold as plugin.wasm: nothing, bytes that do not
\* compile or instantiate, a module without the export "memory", a module
\* without an export "initialize", a module whose export "initialize" is not
\* of type () -> () (get_typed_func fails on it as on a missing one), and
\* modules whose initialize () -> () returns or traps.
WasmKinds == {"missing", "invalid", "no_memory", "no_init", "init_mistyped",
              "init_ok", "init_err"}

\* The result of the last load call of this section, with its inputs:
\* whether the text or archive could be read, the manifest as read, the
\* icon entries, the module.
MNoResult ==
    [fn |-> "none", readable |-> FALSE, m |-> ZpeManifestBase, icons |-> <<>>,
     wasm |-> None, success |-> FALSE,
     plugin_id |-> NoneString, errors |-> {}, warnings |-> {}, calls |-> <<>>]

MNoCall == [fn |-> "none", a |-> <<>>, b |-> <<>>, out |-> FALSE]

\* The checks of this section touch nothing of the sections above.
MFrame == UNCHANGED <<jvars, zvars, nvars, gvars>>

MInit ==
    /\ mbuild = [version |-> <<>>, platform |-> None]
    /\ mjplugins = <<>>
    /\ mzplugins = <<>>
    /\ mres = MNoResult
    /\ mcall = MNoCall

\* The build fixes CARGO_PKG_VERSION and the platform detect_platform finds.
MBuild(build) ==
    /\ MFrame
    /\ mbuild.platform = None
    /\ mbuild' = build
    /\ UNCHANGED <<mjplugins, mzplugins, mres, mcall>>

\* PluginLoadResult / ZpeLoadResult, with the registry the call leaves.
LoadResult(success, plugin_id, errors, warnings, calls, plugins) ==
    [success |-> success, plugin_id |-> plugin_id, errors |-> errors,
     warnings |-> warnings, calls |-> calls, plugins |-> plugins]

\* load_from_json after validate and check_compatibility: an invalid manifest
\* fails with the errors of validate; an incompatible version is a warning;
\* an unsupported platform fails; otherwise the record is inserted.
LoadFromJsonChecked(plugins, m, validation, compatibility) ==
    IF ~validation.is_valid
    THEN LoadResult(FALSE, SomeString(m.id), validation.errors,
                    validation.warnings, <<>>, plugins)
    ELSE IF ~compatibility.platform_compatible
    THEN LoadResult(FALSE, SomeString(m.id),
                    {"does not support the current platform"},
                    validation.warnings \cup
                      (IF ~compatibility.is_compatible
                       THEN {"built for another Ayoto version"} ELSE {}),
                    <<>>, plugins)
    ELSE LoadResult(TRUE, SomeString(m.id), {},
                    validation.warnings \cup
                      (IF ~compatibility.is_compatible
                       THEN {"built for another Ayoto version"} ELSE {}),
                    <<>>,
                    MapInsert(plugins, m.id,
                              [manifest |-> m, enabled |-> TRUE,
                               compatibility |-> compatibility]))

\* PluginLoader::load_from_json on a text that parses to m (or does not
\* parse): from_json, validate, check_compatibility, then the insert under
\* the write guard.
LoadFromJson(plugins, parsed, m, build) ==
    IF ~parsed
    THEN LoadResult(FALSE, NoneString, {"Failed to parse plugin manifest"}, {},
                    <<>>, plugins)
    ELSE LoadFromJsonChecked(plugins, m, PluginManifestValidate(m),
                             CheckCompatibility(m, build.version, build.platform))

MLoadFromJson(parsed, m) ==
    /\ MFrame
    /\ mres.fn = "none"
    /\ mbuild.platform # None
    /\ LET r == LoadFromJson(mjplugins, parsed, m, mbuild) IN
       /\ mjplugins' = r.plugins
       /\ mres' = [fn |-> "load_from_json", readable |-> parsed, m |-> m,
                   icons |-> <<>>, wasm |-> None,
                   success |-> r.success, plugin_id |-> r.plugin_id,
                   errors |-> r.errors, warnings |-> r.warnings, calls |-> r.calls]
    /\ UNCHANGED <<mbuild, mzplugins, mcall>>

\* A ZPE load that takes the record of its id out of the registry when
\* plugin.wasm is missing or cannot be instantiated.
ZpeLoadModuleDropsOld(plugins, m, wasm, warnings, version_checked, build) ==
    LET id == SomeString(m.id) IN
    IF wasm = "missing"
    THEN LoadResult(FALSE, id, {"plugin.wasm not found in archive"}, warnings,
                    <<>>, MapRemove(plugins, m.id))
    ELSE IF wasm \in {"invalid", "no_memory"}
    THEN LoadResult(FALSE, id, {"Failed to create WASM instance"}, warnings,
                    <<>>, MapRemove(plugins, m.id))
    ELSE LoadResult(TRUE, id, {}, warnings,
                    IF wasm \in {"init_ok", "init_err"} THEN <<"initialize">> ELSE <<>>,
                    MapInsert(plugins, m.id,
                              [manifest |-> m, caps |-> m.capabilities,
                               enabled |-> TRUE]))

\* read_wasm, create_instance and initialize of a ZPE load, on the warnings
\* gathered so far; version_checked tells whether the load goes on to
\* check_version_compatibility.  calls are the guest calls of the load, all
\* made before its insert.
ZpeLoadModule(plugins, m, wasm, warnings, version_checked, build) ==
    LET id == SomeString(m.id)
        calls == IF wasm \in {"init_ok", "init_err"} THEN <<"initialize">> ELSE <<>>
        init_warning == IF wasm = "init_err"
                        THEN {"Plugin initialization warning"} ELSE {}
        version_warning ==
            IF version_checked
               /\ ~CheckVersionCompatibility(build.version, m.target_ayoto_version)
            THEN {"Plugin targets another Ayoto version"} ELSE {}
    IN  IF wasm = "missing"
        THEN LoadResult(FALSE, id, {"plugin.wasm not found in archive"}, warnings,
                        <<>>, plugins)
        ELSE IF wasm \in {"invalid", "no_memory"}
        THEN LoadResult(FALSE, id, {"Failed to create WASM instance"}, warnings,
                        <<>>, plugins)
        ELSE LoadResult(TRUE, id, {},
                        warnings \cup init_warning \cup version_warning, calls,
                        MapInsert(plugins, m.id,
                                  [manifest |-> m, caps |-> m.capabilities,
                                   enabled |-> TRUE]))

\* ZpePluginLoader::load_plugin by one caller: the file and archive tests and
\* the manifest (archive_ok), the embedded icon, validate, the "already
\* loaded" warning, the module, the version warning, the insert.
ZpeLoadPlugin(plugins, archive_ok, m, icons, wasm, build) ==
    LET validation == ZpeManifestValidate(WithEmbeddedIcon(m, icons))
        warnings == validation.warnings \cup
                      (IF m.id \in DOMAIN plugins
                       THEN {"already loaded, replacing"} ELSE {})
    IN  IF ~archive_ok
        THEN LoadResult(FALSE, NoneString, {"Invalid ZPE archive"}, {}, <<>>, plugins)
        ELSE IF ~validation.valid
        THEN LoadResult(FALSE, NoneString, validation.errors, {}, <<>>, plugins)
        ELSE ZpeLoadModule(plugins, WithEmbeddedIcon(m, icons), wasm, warnings,
                           TRUE, build)

\* ZpePluginLoader::load_plugin_from_bytes by one caller: the archive and the
\* manifest (archive_ok), the embedded icon, validate, the module, the insert.
ZpeLoadPluginFromBytes(plugins, archive_ok, m, icons, wasm, build) ==
    LET validation == ZpeManifestValidate(WithEmbeddedIcon(m, icons)) IN
    IF ~archive_ok
    THEN LoadResult(FALSE, NoneString, {"Invalid ZPE archive"}, {}, <<>>, plugins)
    ELSE IF ~validation.valid
    THEN LoadResult(FALSE, NoneString, validation.errors, {}, <<>>, plugins)
    ELSE ZpeLoadModule(plugins, WithEmbeddedIcon(m, icons), wasm,
                       validation.warnings, FALSE, build)

MZpeLoadPlugin(archive_ok, m, icons, wasm) ==
    /\ MFrame
    /\ mres.fn = "none"
    /\ mbuild.platform # None
    /\ LET r == ZpeLoadPlugin(mzplugins, archive_ok, m, icons, wasm, mbuild) IN
       /\ mzplugins' = r.plugins
       /\ mres' = [fn |-> "load_plugin", readable |-> archive_ok, m |-> m,
                   icons |-> icons, wasm |-> wasm,
                   success |-> r.success, plugin_id |-> r.plugin_id,
                   errors |-> r.errors, warnings |-> r.warnings, calls |-> r.calls]
    /\ UNCHANGED <<mbuild, mjplugins, mcall>>

MZpeLoadPluginFromBytes(archive_ok, m, icons, wasm) ==
    /\ MFrame
    /\ mres.fn = "none"
    /\ mbuild.platform # None
    /\ LET r == ZpeLoadPluginFromBytes(mzplugins, archive_ok, m, icons, wasm,
                                       mbuild) IN
       /\ mzplugins' = r.plugins
       /\ mres' = [fn |-> "load_plugin_from_bytes", readable |-> archive_ok,
                   m |-> m, icons |-> icons, wasm |-> wasm,
                   success |-> r.success, plugin_id |-> r.plugin_id,
                   errors |-> r.errors, warnings |-> r.warnings, calls |-> r.calls]
    /\ UNCHANGED <<mbuild, mjplugins, mcall>>

\* The prerelease tags of the modelled versions: none, plain, with a '-' and
\* a '.' inside, empty.
Prereleases == {NoneString, SomeString(<<"r", "c">>),
                SomeString(<<"r", "c", "-", "1", ".", "2">>), SomeString(<<>>)}

\* The versions that are compared: a few numbers, with and without a tag.
CmpVersions ==
    {SemVer(x, y, z, p) : x \in 0..2, y \in 0..2, z \in 0..2,
                          p \in {NoneString, SomeString(<<"r", "c">>)}}

\* SemVer::parse on the text of a well-formed version (three numbers in
\* decimal between dots, then '-' and the prerelease if there is one), then
\* Display on what it returns and parse on that.
MParseDisplay(major, minor, patch, prerelease) ==
    /\ MFrame
    /\ mcall.fn = "none"
    /\ LET text == U32ToString(major) \o <<".">> \o U32ToString(minor) \o <<".">>
                     \o U32ToString(patch)
                     \o (IF prerelease.some THEN <<"-">> \o prerelease.s ELSE <<>>)
           parsed == SemVerParse(text)
           shown == SemVerDisplay(parsed.v)
       IN  mcall' = [fn |-> "parse", a |-> text, b |-> shown,
                     out |-> [v |-> SemVer(major, minor, patch, prerelease),
                              parsed |-> parsed, reparsed |-> SemVerParse(shown)]]
    /\ UNCHANGED <<mbuild, mjplugins, mzplugins, mres>>

\* SemVer::is_at_least on two versions.
MIsAtLeast(self, target) ==
    /\ MFrame
    /\ mcall.fn = "none"
    /\ mcall' = [fn |-> "is_at_least", a |-> SemVerDisplay(self),
                 b |-> SemVerDisplay(target),
                 out |-> [self |-> self, target |-> target,
                          r |-> IsAtLeast(self, target)]]
    /\ UNCHANGED <<mbuild, mjplugins, mzplugins, mres>>

\* The version verdict of each loader on a manifest with the given target
\* version: check_compatibility of the JSON loader, check_version_compatibility
\* of the native and of the ZPE loader.
MCheckCompatibility(target_version) ==
    /\ MFrame
    /\ mcall.fn = "none"
    /\ mbuild.platform # None
    /\ LET m == [JsonManifestBase EXCEPT !.target_ayoto_version = target_version] IN
       mcall' = [fn |-> "compatibility", a |-> mbuild.version, b |-> target_version,
                 out |-> [json |-> CheckCompatibility(m, mbuild.version,
                                                      mbuild.platform).is_compatible,
                          native |-> NativeCheckVersionCompatibility(mbuild.version,
                                                                     target_version),
                          zpe |-> CheckVersionCompatibility(mbuild.version,
                                                            target_version)]]
    /\ UNCHANGED <<mbuild, mjplugins, mzplugins, mres>>

\* The function has returned and its result has been read.
MCallReturn ==
    /\ MFrame
    /\ mcall.fn # "none"
    /\ mcall' = MNoCall
    /\ UNCHANGED <<mbuild, mjplugins, mzplugins, mres>>

\* The load has returned and its result has been read.
MLoadReturn ==
    /\ MFrame
    /\ mres.fn # "none"
    /\ mres' = MNoResult
    /\ UNCHANGED <<mbuild, mjplugins, mzplugins, mcall>>

\* The JSON loader and the ZPE loader share no state, and the functions on
\* versions have none: each is run with the others at rest, one call at a
\* time.
ManifestNext ==
    \/ \E build \in Builds : MBuild(build)
    \/ /\ mjplugins = <<>> /\ mzplugins = <<>> /\ mres.fn = "none" /\ mcall.fn = "none"
       /\ \/ \E x \in 0..U32Max, y \in 0..U32Max, z \in 0..U32Max, p \in Prereleases :
                MParseDisplay(x, y, z, p)
          \/ \E a \in CmpVersions, b \in CmpVersions : MIsAtLeast(a, b)
          \/ \E target \in CmpVersions : MCheckCompatibility(SemVerDisplay(target))
    \/ MCallReturn
    \/ /\ mzplugins = <<>> /\ mcall.fn = "none" /\ mres.fn = "none"
       /\ \E parsed \in BOOLEAN, m \in JsonManifests : MLoadFromJson(parsed, m)
    \/ /\ mjplugins = <<>> /\ mcall.fn = "none" /\ mres.fn = "none"
       /\ \/ \E ok \in BOOLEAN, a \in ZpeArchives, wasm \in WasmKinds :
                MZpeLoadPlugin(ok, a.m, a.icons, wasm)
          \/ \E ok \in BOOLEAN, a \in ZpeArchives, wasm \in WasmKinds :
                MZpeLoadPluginFromBytes(ok, a.m, a.icons, wasm)
    \/ MLoadReturn

vars == <<jvars, zvars, nvars, gvars, mvars>>

Init == JInit /\ ZInit /\ NInit /\ GInit /\ MInit

\* One specification per registry; the registries share no state.
SpecJson == Init /\ [][JQueryNext]_vars
SpecZpe == Init /\ [][ZNext]_vars
SpecNative == Init /\ [][NNext]_vars
SpecManifest == Init /\ [][ManifestNext]_vars
SpecCall == Init /\ [][GNext]_vars

\* The three registries side by side.  They share no state, so a behaviour
\* works on one of them while the other two are as constructed.
RegistriesNext ==
    \/ (ZInit /\ NInit /\ JNext)
    \/ (JInit /\ NInit /\ ZNext)
    \/ (JInit /\ ZInit /\ NNext)

SpecRegistries == Init /\ [][RegistriesNext]_vars

\* The load paths of all loaders: the ZPE and the native registry under
\* concurrent callers, whose loads take their lock more than once, and the
\* loads of one caller (load_from_json, which takes its lock once, and the
\* ZPE loads) with their manifests, modules and results; each runs while the
\* others are as constructed.
LoadersNext ==
    \/ /\ mbuild.platform = None /\ mres.fn = "none" /\ mcall.fn = "none"
       /\ \/ (JInit /\ NInit /\ ZNext)
          \/ (JInit /\ ZInit /\ NNext)
    \/ (JInit /\ ZInit /\ NInit /\ ManifestNext)

SpecLoaders == Init /\ [][LoadersNext]_vars

\* The ZPE and the native registry side by side, each under two concurrent
\* callers that work on one plugin id with every operation of the loader.
LiveNext ==
    \/ /\ NInit
       /\ \/ \E t \in Threads, op \in {"search", "get_popular"} :
                ZDispatchBegin(t, "a", op)
          \/ \E t \in Threads, out \in ZGuestOutcomes : ZDispatchGuest(t, out)
          \/ \E t \in Threads : ZReturn(t)
          \/ \E t \in Threads, e \in BOOLEAN : ZSetPluginEnabled(t, "a", e)
          \/ \E t \in Threads : ZUnloadBegin(t, "a")
          \/ \E t \in Threads : ZUnloadShutdown(t)
          \/ \E t \in Threads, caps \in ZCapSets, ok \in BOOLEAN :
                ZLoadBegin(t, "a", caps, ok)
          \/ \E t \in Threads, caps \in ZCapSets, ok \in BOOLEAN :
                ZLoadFromBytesBegin(t, "a", caps, ok)
          \/ \E t \in Threads : ZLoadCheckLoaded(t)
          \/ \E t \in Threads, out \in {"failed", "has_init", "no_init"} :
                ZLoadCreateInstance(t, out)
          \/ \E t \in Threads, ok \in BOOLEAN : ZLoadInitialize(t, ok)
          \/ \E t \in Threads : ZLoadStore(t)
    \/ /\ ZInit
       /\ \/ \E t \in Threads, name \in {"unloadable", "p_full", "p_search"},
                ok \in BOOLEAN : NLoadBegin(t, name, ok)
          \/ \E t \in Threads : NLoadCheckLoaded(t)
          \/ \E t \in Threads, d \in DropOutcomes : NLoadStore(t, d)
          \/ \E t \in Threads, out \in {"ok", "fail", "panic"} : NLoadInitialize(t, out)
          \/ \E t \in Threads, d \in DropOutcomes : NUnloadPlugin(t, "p", d)
          \/ \E t \in Threads, op \in {"search", "get_episodes"} :
                NDispatchBegin(t, "p", op)
          \/ \E t \in Threads, ok \in BOOLEAN : NDispatchCall(t, ok)
          \/ \E t \in Threads : NReturn(t)

\* A caller that is inside a method goes on: its thread is scheduled, and the
\* call into the guest or the plugin that it is in returns (or unwinds).
Scheduled(t) ==
    \/ \E out \in ZGuestOutcomes : ZDispatchGuest(t, out)
    \/ ZReturn(t)
    \/ ZUnloadShutdown(t)
    \/ \E out \in {"failed", "has_init", "no_init"} : ZLoadCreateInstance(t, out)
    \/ \E ok \in BOOLEAN : ZLoadInitialize(t, ok)
    \/ \E ok \in BOOLEAN : NDispatchCall(t, ok)
    \/ NReturn(t)

\* A caller that is inside a method and waits in read() or write() gets the
\* guard if the lock is free again and again.
LockGranted(t) ==
    \/ ZLoadCheckLoaded(t)
    \/ ZLoadStore(t)
    \/ NLoadCheckLoaded(t)
    \/ \E d \in DropOutcomes : NLoadStore(t, d)
    \/ \E out \in {"ok", "fail", "panic"} : NLoadInitialize(t, out)

\* Fair scheduling of the callers' threads and a fair lock.  Nothing makes a
\* caller start an operation.
Fairness == \A t \in Threads : WF_vars(Scheduled(t)) /\ SF_vars(LockGranted(t))

SpecLive == Init /\ [][LiveNext]_vars /\ Fairness

\* C21: a ZPE load of a readable archive whose manifest has an abi_version
\* other than ZPE_ABI_VERSION, a non-empty id, name and version, and whose
\* module instantiates, returns success with the ABI warning among its
\* warnings; the record is in the registry under the manifest's id and every
\* operation of its capability set passes the dispatch checks.
C21_AbiDifferenceIsWarning ==
    (/\ mres.fn \in {"load_plugin", "load_plugin_from_bytes"}
     /\ mres.readable
     /\ mres.m.abi_version # ZPE_ABI_VERSION
     /\ mres.m.id # <<>> /\ mres.m.name # <<>> /\ mres.m.version # <<>>
     /\ mres.wasm \in {"no_init", "init_mistyped", "init_ok", "init_err"})
    => /\ mres.success
       /\ mres.errors = {}
       /\ "Plugin ABI version differs from current version" \in mres.warnings
       /\ mres.m.id \in DOMAIN mzplugins
       /\ mzplugins[mres.m.id].manifest = WithEmbeddedIcon(mres.m, mres.icons)
       /\ \A op \in mres.m.capabilities :
             ZpeDispatchCheck(mzplugins, mres.m.id, op) = "exec"

\* C21 happens: load_plugin_from_bytes has stored a plugin built for another ABI.
C21_Witness ==
    /\ mres.fn = "load_plugin_from_bytes"
    /\ mres.m.abi_version = 2
    /\ mres.success
    /\ mres.m.id \in DOMAIN mzplugins
    /\ mzplugins[mres.m.id].manifest.abi_version = 2


\* C22 as claimed: on load_from_json, load_plugin and load_plugin_from_bytes,
\* a load of a readable, otherwise valid manifest with a working module whose
\* target version is well formed and has a major other than the host's
\* succeeds and returns at least one warning.
C22_AsClaimed ==
    (/\ mres.fn \in {"load_from_json", "load_plugin", "load_plugin_from_bytes"}
     /\ mres.readable
     /\ mres.m = [(IF mres.fn = "load_from_json" THEN JsonManifestBase
                   ELSE ZpeManifestBase)
                    EXCEPT !.target_ayoto_version = mres.m.target_ayoto_version]
     /\ mres.fn # "load_from_json" => mres.wasm \in {"no_init", "init_ok", "init_err"}
     /\ SemVerParse(mres.m.target_ayoto_version).ok
     /\ SemVerParse(mres.m.target_ayoto_version).v.major
          # SemVerParse(mbuild.version).v.major)
    => (mres.success /\ mres.warnings # {})

\* C23 as claimed: for a well-formed host version and a well-formed target
\* version, the JSON, the native and the ZPE loader give the same version
\* verdict, and it is "compatible" exactly when the two majors are equal.
C23_AsClaimed ==
    mcall.fn = "compatibility"
    => LET same_major == SemVerParse(mcall.a).v.major = SemVerParse(mcall.b).v.major IN
       /\ mcall.out.json = same_major
       /\ mcall.out.native = same_major
       /\ mcall.out.zpe = same_major

\* C24 as claimed: a load_from_json of a manifest with the scraping
\* capability and no non-empty scraping base URL (no scraping config, or one
\* with an empty base_url) is rejected: validate reports it invalid, the load
\* returns failure and the registry is unchanged.
C24_AsClaimed ==
    [][(/\ mres.fn = "none"
        /\ mres'.fn = "load_from_json"
        /\ mres'.readable
        /\ mres'.m.scraping
        /\ (~mres'.m.scraping_config.some \/ mres'.m.scraping_config.s = <<>>))
       => /\ ~PluginManifestValidate(mres'.m).is_valid
          /\ ~mres'.success
          /\ mjplugins' = mjplugins]_vars

\* The manifest invariant on a manifest m: the id is not empty and holds only
\* alphanumerics, '-' and '_'; version and target version parse as a SemVer.
ManifestInvariant(m) ==
    /\ m.id # <<>>
    /\ \A i \in 1..Len(m.id) : IsAlphanumeric(m.id[i]) \/ m.id[i] \in {"-", "_"}
    /\ SemVerParse(m.version).ok
    /\ SemVerParse(m.target_ayoto_version).ok

\* C25 as claimed: every record of the JSON registry and every record of the
\* ZPE registry holds a manifest that satisfies the manifest invariant.
C25_AsClaimed ==
    /\ \A id \in DOMAIN mjplugins : ManifestInvariant(mjplugins[id].manifest)
    /\ \A id \in DOMAIN mzplugins : ManifestInvariant(mzplugins[id].manifest)

C27_ParseDisplayRoundTrip ==
    mcall.fn = "parse"
    => /\ mcall.out.parsed.ok
       /\ mcall.out.parsed.v = mcall.out.v
       /\ mcall.out.reparsed.ok
       /\ mcall.out.reparsed.v = mcall.out.v

\* C27 happens: a version with a number of two digits and a prerelease tag
\* that holds a '-' has been parsed, written and parsed again.
C27_Witness ==
    /\ mcall.fn = "parse"
    /\ mcall.out.v.major >= 10
    /\ mcall.out.v.prerelease.some
    /\ \E i \in 1..Len(mcall.out.v.prerelease.s) : mcall.out.v.prerelease.s[i] = "-"
    /\ mcall.out.reparsed.ok

\* C28: is_at_least(a, b) is true exactly when (a.major, a.minor, a.patch)
\* is lexicographically greater than or equal to (b.major, b.minor, b.patch),
\* whatever the prerelease tags of a and b are.
C28_IsAtLeastLexicographic ==
    mcall.fn = "is_at_least"
    => LET a == mcall.out.self
           b == mcall.out.target
       IN  mcall.out.r
           <=> \/ a.major > b.major
               \/ a.major = b.major /\ a.minor > b.minor
               \/ a.major = b.major /\ a.minor = b.minor /\ a.patch >= b.patch

\* C28 happens: a version with a prerelease tag has been compared with a
\* release of the same major and minor and a higher patch, and is not at
\* least that release.
C28_Witness ==
    /\ mcall.fn = "is_at_least"
    /\ mcall.out.self.prerelease.some /\ ~mcall.out.target.prerelease.some
    /\ mcall.out.self.major = mcall.out.target.major
    /\ mcall.out.self.minor = mcall.out.target.minor
    /\ mcall.out.self.patch < mcall.out.target.patch
    /\ ~mcall.out.r

\* C29 as claimed: a ZPE load of a readable archive with a valid manifest
\* fails and leaves the registry as it was when the module exports no
\* "memory"; succeeds without a guest call and without an initialization
\* warning when the module exports memory and no "initialize"; and calls
\* initialize exactly once, before its insert, when the module exports an
\* "initialize".
C29_AsClaimed ==
    [][(/\ mres.fn = "none"
        /\ mres'.fn \in {"load_plugin", "load_plugin_from_bytes"}
        /\ mres'.readable
        /\ ZpeManifestValidate(mres'.m).valid)
       => /\ mres'.wasm = "no_memory"
             => ~mres'.success /\ mzplugins' = mzplugins
          /\ mres'.wasm = "no_init"
             => /\ mres'.success
                /\ mres'.calls = <<>>
                /\ "Plugin initialization warning" \notin mres'.warnings
                /\ mres'.m.id \in DOMAIN mzplugins'
          /\ mres'.wasm \in {"init_mistyped", "init_ok", "init_err"}
             => /\ mres'.calls = <<"initialize">>
                /\ mres'.success
                /\ mres'.m.id \in DOMAIN mzplugins']_vars

\* C30: no load leaves a partial result.  A load_from_json, load_plugin or
\* load_plugin_from_bytes of one caller that returns success=false leaves
\* both registries as they were, and fails with the error "plugin.wasm not
\* found in archive" when the archive has a valid manifest and no
\* plugin.wasm.  Under concurrent callers, no step of a ZPE or native load
\* changes its registry (records and enabled flags) unless it is the store
\* of a load, and a load that has stored never returns failure.
C30_NoPartialSuccess ==
    [][/\ (mres.fn = "none" /\ mres'.fn # "none" /\ ~mres'.success)
            => mjplugins' = mjplugins /\ mzplugins' = mzplugins
       /\ (/\ mres.fn = "none"
           /\ mres'.fn \in {"load_plugin", "load_plugin_from_bytes"}
           /\ mres'.readable
           /\ ZpeManifestValidate(mres'.m).valid
           /\ mres'.wasm = "missing")
            => /\ ~mres'.success
               /\ mres'.errors = {"plugin.wasm not found in archive"}
       /\ \A t \in Threads :
            /\ (zthr'[t] # zthr[t]
                /\ zthr'[t].pc \in {"zl_check", "zl_create", "zl_init", "zl_store"})
                 => zplugins' = zplugins
            /\ (zthr'[t] # zthr[t] /\ zthr'[t].pc = "zl_ret" /\ zthr'[t].res = "failed")
                 => zplugins' = zplugins
            /\ (nthr'[t] # nthr[t] /\ nthr'[t].pc \in {"nl_check", "nl_store"})
                 => nplugins' = nplugins
            /\ (nthr'[t] # nthr[t] /\ nthr'[t].pc = "nl_ret" /\ nthr'[t].res = "failed")
                 => nplugins' = nplugins
            /\ (nthr'[t] # nthr[t] /\ nthr[t].pc = "nl_init")
                 => nthr'[t].res # "failed"]_vars

\* C30 happens: a ZPE load has failed after its manifest was read while the
\* registry holds a disabled record of the same id.
C30_Witness ==
    \E t \in Threads :
        /\ zthr[t].pc = "zl_ret" /\ zthr[t].res = "failed"
        /\ zthr[t].id \in DOMAIN zplugins
        /\ ~zplugins[zthr[t].id].enabled

C32_AsClaimed ==
    [][\A t \in Threads :
        (/\ zthr'[t] # zthr[t]
         /\ \/ DOMAIN zplugins \ DOMAIN zplugins' # {}
            \/ /\ zthr[t].pc = "zl_store" /\ zthr'[t].res = "ok"
               /\ zthr[t].id \in DOMAIN zplugins)
        => zthr'[t].pc = "zu_shutdown"]_vars

\* C33: when a typed wrapper has read the result of the guest, an envelope
\* that deserializes with success=false gives Err with the envelope's error
\* text, or "Unknown error" when the error is missing or null, also when a
\* value is present; one with success=true and a value gives Ok of that
\* value; one with success=true and no value gives Err; and no result
\* bytes at all give Ok unless they are an envelope with success=true.
C33_EnvelopeMapping ==
    (gcall.pc = "g_ret" /\ gcall.data.text # "none")
    => LET d == gcall.data
           deserializes == /\ d.text = "object"
                           /\ d.success \in {"true", "false"}
                           /\ d.value # "ill_typed"
                           /\ d.error # "ill_typed"
       IN  /\ (deserializes /\ d.success = "false")
              => /\ ~gcall.out.ok
                 /\ gcall.out.err = IF d.error = "typed" THEN "error text"
                                    ELSE "Unknown error"
           /\ (deserializes /\ d.success = "true" /\ d.value = "typed")
              => gcall.out.ok /\ gcall.out.value = "value"
           /\ (deserializes /\ d.success = "true" /\ d.value # "typed")
              => ~gcall.out.ok
           /\ gcall.out.ok => (d.text = "object" /\ d.success = "true")
           /\ (gcall.res = "ok") <=> gcall.out.ok

\* C33 happens: the guest has returned an envelope with success=false, a
\* value and no error, and the wrapper has returned Err("Unknown error").
C33_Witness ==
    /\ gcall.pc = "g_ret"
    /\ gcall.data.text = "object" /\ gcall.data.success = "false"
    /\ gcall.data.value = "typed" /\ gcall.data.error = "missing"
    /\ ~gcall.out.ok /\ gcall.out.err = "Unknown error"

C35_CapabilityQuery ==
    [][\A t \in Threads :
         (jthr[t].pc = "idle" /\ jthr'[t].pc = "jq_ret") =>
            LET name == jthr'[t].op
                names == <<"search", "getPopular", "getLatest", "getEpisodes",
                           "getStreams", "getAnimeDetails", "scraping",
                           "extractStream", "getHosterInfo", "decryptStream",
                           "getDownloadLink">>
                flags == <<"search", "get_popular", "get_latest", "get_episodes",
                           "get_streams", "get_anime_details", "scraping",
                           "extract_stream", "get_hoster_info", "decrypt_stream",
                           "get_download_link">>
            IN  /\ \A id \in jthr'[t].list :
                      id \in DOMAIN jplugins /\ jplugins[id].enabled
                /\ \A i \in 1..11 : name = names[i] =>
                      jthr'[t].list = {id \in DOMAIN jplugins :
                                          /\ jplugins[id].enabled
                                          /\ flags[i] \in jplugins[id].caps}
                /\ (\A i \in 1..11 : name # names[i]) => jthr'[t].list = {}]_vars

\* A query for getHosterInfo has returned one record while the other loaded
\* record, which declares the flag too, is disabled.
C35_Witness ==
    \E t \in Threads :
        /\ jthr[t].pc = "jq_ret" /\ jthr[t].op = "getHosterInfo"
        /\ jthr[t].list = {"j1"}
        /\ DOMAIN jplugins = {"j1", "j2"}
        /\ jplugins["j1"].enabled /\ ~jplugins["j2"].enabled
        /\ "get_hoster_info" \in jplugins["j2"].caps

\* C36: a manifest whose platforms list holds the group desktop passes the
\* platform check of a load on a Windows, macOS or Linux host, and one that
\* holds mobile passes it on an iOS or Android host: a load_from_json of
\* such a manifest, readable and valid, never fails on the platform.
C36_AsClaimed ==
    (/\ mres.fn = "load_from_json"
     /\ mres.readable
     /\ PluginManifestValidate(mres.m).is_valid
     /\ \/ /\ "desktop" \in mres.m.platforms
           /\ mbuild.platform \in {"windows", "macos", "linux"}
        \/ /\ "mobile" \in mres.m.platforms
           /\ mbuild.platform \in {"ios", "android"})
    => /\ mres.success
       /\ "does not support the current platform" \notin mres.errors

\* C37: under fair scheduling of two concurrent callers and a fair lock,
\* on the ZPE and on the native registry: a caller holds a guard only while
\* it is inside a method, at a point from which it goes on without taking a
\* lock; a caller that waits for a lock inside a method holds none; and
\* every operation that a caller has started (load, unload, set enabled,
\* dispatch) completes, short of a host that a plugin's destructor has
\* crashed.
C37_DeadlockFree ==
    /\ [](\A t \in Threads :
            /\ zlock = t => zthr[t].pc \in {"zd_exec", "zd_ret", "zu_shutdown", "zu_ret"}
            /\ t \in nreaders => nthr[t].pc \in {"nd_call", "nd_ret"}
            /\ zthr[t].pc \in {"zl_check", "zl_store"} => zlock # t
            /\ nthr[t].pc \in {"nl_check", "nl_store", "nl_init"} => t \notin nreaders)
    /\ \A t \in Threads :
            /\ (zthr[t].pc # "idle") ~> (zthr[t].pc = "idle")
            /\ (nthr[t].pc # "idle") ~> (nthr[t].pc = "idle" \/ naborted)

\* C37 happens: one caller waits for the write guard to store its load while
\* the other holds the guard inside a guest call; and on the native registry
\* one caller waits to store while the other holds a read guard in a
\* plugin call.
C37_Witness ==
    \/ \E t, u \in Threads :
          /\ zthr[t].pc = "zl_store" /\ zthr[u].pc = "zd_exec" /\ zlock = u
    \/ \E t, u \in Threads :
          /\ nthr[t].pc = "nl_store" /\ nthr[u].pc = "nd_call" /\ u \in nreaders

\* C11 as claimed: every call into a guest ends with an Ok or an Err for
\* its caller, whatever the guest does (missing exports, traps, a null
\* result, any packed return value, any envelope); the host never panics in
\* it and the registry lock, under whose guard the call runs, is not
\* poisoned.
C11_AsClaimed ==
    /\ gcall.res \in {None, "ok", "err"}
    /\ ~gpoisoned

\* C12: a cross-boundary call does, in this order and nothing else:
\* allocate(len) of the guest for the length of the payload, one write of
\* the payload at the offset allocate returned, the entry point with that
\* (ptr, len), one read of the result.  A write is only ever at the offset
\* the allocate of this call returned; the entry point is only called after
\* the allocate and the write both succeeded; the read comes after the
\* entry point.
C12_CallProtocol ==
    LET l == gcall.log IN
    \A i \in 1..Len(l) :
        /\ l[i].ev = "allocate" => (i = 1 /\ l[i].len = gcall.len)
        /\ l[i].ev = "write" =>
              /\ i = 2 /\ l[1].ev = "allocate"
              /\ l[i].a = l[1].a /\ l[i].len = gcall.len
              /\ l[i].a + l[i].len <= MemSize
        /\ l[i].ev = "entry" =>
              /\ i = 3 /\ l[1].ev = "allocate" /\ l[2].ev = "write"
              /\ l[i].a = l[1].a /\ l[i].len = gcall.len
        /\ l[i].ev = "read" => (i = 4 /\ l[3].ev = "entry")

\* C12 witness: a call has gone through all four steps and returned Ok.
C12_Witness ==
    /\ gcall.pc = "g_ret" /\ gcall.res = "ok"
    /\ Len(gcall.log) = 4
    /\ gcall.log[2].a > 0

\* C13 as claimed: when the entry point returned (p << 32) | n, with p and
\* n unsigned 32-bit values, the host reads at offset p and with length n:
\* the high and the low half of the value, as unsigned numbers.
C13_AsClaimed ==
    gcall.pc = "g_read" =>
        LET u == gcall.packed % Pow2(2 * HalfBits) IN
        /\ AsUsize(gcall.rptr) = u \div Pow2(HalfBits)
        /\ AsUsize(gcall.rlen) = u % Pow2(HalfBits)

\* C14 as claimed (native registry): a load_plugin that stores its container
\* over a record of the same id completes: the host process is alive after
\* the store, so that the load can return success with the id registered
\* once, holding the second plugin's data.
C14_AsClaimed ==
    \A t \in Threads :
        (nthr[t].pc = "nl_init" /\ nthr[t].dropped.lib # None) =>
            /\ ~naborted
            /\ nthr[t].id \in DOMAIN nplugins

\* C15 as claimed: in each registry, unload_plugin of an id that is not
\* loaded returns the not-found error and leaves the registry as it was.
C15_AsClaimed ==
    [][\A t \in Threads :
        /\ (jthr[t].pc = "idle" /\ jthr'[t].pc = "ju_ret"
               /\ jthr'[t].id \notin DOMAIN jplugins) =>
              (jthr'[t].res = "not_found" /\ jplugins' = jplugins)
        /\ (zthr[t].pc = "idle" /\ zthr'[t].pc \in {"zu_ret", "zu_shutdown"}
               /\ zthr'[t].id \notin DOMAIN zplugins) =>
              (zthr'[t].res = "not_found" /\ zplugins' = zplugins)
        /\ (nthr[t].pc = "idle" /\ nthr'[t].pc = "nu_ret"
               /\ nthr'[t].id \notin DOMAIN nplugins) =>
              (nthr'[t].res = "not_found" /\ nplugins' = nplugins)]_vars

\* C15 as amended: in each registry, unload_plugin of an id that is not
\* loaded never returns success and leaves the registry as it was; it
\* returns the not-found error when it could take the lock and the
\* lock-failure error when the lock is poisoned.
C15_UnloadUnknown ==
    [][\A t \in Threads :
        /\ (jthr[t].pc = "idle" /\ jthr'[t].pc = "ju_ret"
               /\ jthr'[t].id \notin DOMAIN jplugins) =>
              (jthr'[t].res = "not_found" /\ jplugins' = jplugins)
        /\ (zthr[t].pc = "idle" /\ zthr'[t].pc \in {"zu_ret", "zu_shutdown"}
               /\ zthr'[t].id \notin DOMAIN zplugins) =>
              /\ zthr'[t].pc = "zu_ret"
              /\ zthr'[t].res = IF zpoisoned THEN "lock_error" ELSE "not_found"
              /\ zplugins' = zplugins
        /\ (nthr[t].pc = "idle" /\ nthr'[t].pc = "nu_ret"
               /\ nthr'[t].id \notin DOMAIN nplugins) =>
              /\ nthr'[t].res = IF npoisoned THEN "lock_error" ELSE "not_found"
              /\ nplugins' = nplugins]_vars

\* C15 witness: an unload of an id that is not loaded has returned not-found
\* from a registry that holds another plugin.
C15_Witness ==
    \E t \in Threads :
        /\ nthr[t].pc = "nu_ret"
        /\ nthr[t].id \notin DOMAIN nplugins
        /\ nthr[t].res = "not_found"
        /\ DOMAIN nplugins # {}

\* C16 as claimed: a ZPE load that inserts its record over a record of the
\* same id carries the "already loaded, replacing" warning, and a successful
\* load that carries the warning has replaced a record.
C16_AsClaimed ==
    [][\A t \in Threads :
        (zthr[t].pc = "zl_store" /\ zthr'[t].pc = "zl_ret" /\ zthr'[t].res = "ok") =>
            (("replacing" \in zthr'[t].warns) <=> (zthr[t].id \in DOMAIN zplugins))]_vars

\* C17 as claimed: an operation that cannot take the poisoned registry lock
\* reports the lock failure to its caller; here the "already loaded" test of
\* a native load, which must end the load with the error.
C17_AsClaimed ==
    [][\A t \in Threads :
        (npoisoned /\ nthr[t].pc = "nl_check" /\ nthr'[t].pc # "nl_check") =>
            (nthr'[t].pc = "nl_ret" /\ nthr'[t].res = "failed")]_vars

C19_AsClaimed ==
    \A t \in Threads :
        (nthr[t].pc = "nd_call" /\ nthr[t].id \in DOMAIN nplugins) =>
            nplugins[nthr[t].id].initialized

\* C20 as claimed: a native plugin object has initialize called at most
\* once, and shutdown exactly once when it is removed.
C20_AsClaimed ==
    /\ \A id \in DOMAIN nplugins : Count(nplugins[id].log, "initialize") <= 1
    /\ \A t \in Threads :
          /\ Count(nthr[t].dropped.log, "initialize") <= 1
          /\ nthr[t].dropped.lib # None => Count(nthr[t].dropped.log, "shutdown") = 1

\* C2 as claimed: a native dispatch against a loaded plugin whose capability
\* flags lack the requested operation returns a capability error, and the
\* plugin object's method for the operation is never invoked.
C2_AsClaimed ==
    \A t \in Threads :
        LET c == nthr[t] IN
        (c.pc \in {"nd_call", "nd_ret"} /\ t \in nreaders
            /\ c.id \in DOMAIN nplugins /\ c.op \notin nplugins[c.id].caps) =>
                (c.pc = "nd_ret" /\ c.res = "unsupported")

PluginObjectCode == {"initialize", "shutdown", "drop"}

NoCodeAfterClose(l) ==
    \A i, j \in 1..Len(l) : (l[i] = "dlclose" /\ i < j) => l[j] \notin PluginObjectCode

\* C6 as claimed: once a native plugin's library handle has been released no
\* code of that plugin object runs again; the object is fully released, its
\* destructor included, before the handle is closed.
C6_AsClaimed ==
    \A t \in Threads :
        NoCodeAfterClose(nthr[t].dropped.log) /\ NoCodeAfterClose(nthr[t].obj.log)

\* C7: under any interleaving of native dispatch calls with unload_plugin and
\* load_plugin, no container is shut down and closed while a dispatch call
\* is inside its plugin object, and a dispatch call is only ever inside the
\* object of a registered container whose handle is open and which has not
\* been shut down.
C7_NoDropDuringCall ==
    \A t \in Threads :
        /\ ~nthr[t].dropped.busy
        /\ nthr[t].pc = "nd_call" =>
              /\ nthr[t].id \in DOMAIN nplugins
              /\ HandleOpen(nplugins[nthr[t].id].log)
              /\ ~Has(nplugins[nthr[t].id].log, "shutdown")

\* C7 witness: a dispatch call is inside a plugin object while another
\* caller's load of the same id stands at its store, which would drop it.
C7_Witness ==
    \E t, u \in Threads :
        /\ t # u
        /\ nthr[t].pc = "nd_call"
        /\ nthr[u].pc = "nl_store"
        /\ nthr[u].id = nthr[t].id

\* The library of a load reports an ABI version other than the host's.
AbiMismatch(name) ==
    /\ name # None
    /\ NLib(name).loadable /\ NLib(name).has_abi
    /\ NLib(name).abi # PLUGIN_ABI_VERSION

\* C8: a native load of a library whose ABI version differs from
\* PLUGIN_ABI_VERSION returns success=false, has not called the factory,
\* has closed the handle it opened (as the last thing done to the library),
\* and leaves the registry as it was.
C8_AbiMismatchFails ==
    /\ [](\A t \in Threads :
            (nthr[t].pc = "nl_ret" /\ AbiMismatch(nthr[t].obj.lib)) =>
                LET l == nthr[t].obj.log IN
                /\ nthr[t].res = "failed"
                /\ ~Has(l, "create")
                /\ Count(l, "dlopen") = 1 /\ Count(l, "dlclose") = 1
                /\ l[Len(l)] = "dlclose")
    /\ [][\A t \in Threads :
            (nthr[t].pc = "idle" /\ AbiMismatch(nthr'[t].obj.lib)) =>
                (nthr'[t].pc = "nl_ret" /\ nplugins' = nplugins)]_vars

\* C8 witness: a load of a library of ABI version 99 has returned while a
\* plugin is registered.
C8_Witness ==
    \E t \in Threads :
        /\ nthr[t].pc = "nl_ret"
        /\ nthr[t].obj.lib = "abi99"
        /\ nthr[t].res = "failed"
        /\ DOMAIN nplugins # {}

\* C9 as claimed: every load_plugin that returns success=false after it
\* opened the library has released the handle it opened.
C9_AsClaimed ==
    \A t \in Threads :
        (nthr[t].pc = "nl_ret" /\ nthr[t].res = "failed"
            /\ Has(nthr[t].obj.log, "dlopen")) => ~HandleOpen(nthr[t].obj.log)

\* C3 as claimed: a JSON-layer command against a loaded plugin that is both
\* disabled and without the capability flag of the requested operation
\* returns the "is disabled" error, not the "does not support" error.
C3_AsClaimed ==
    \A t \in Threads :
        (jthr[t].pc = "jc_ret" /\ jthr[t].snap.found /\ ~jthr[t].snap.enabled
            /\ jthr[t].op \notin jthr[t].snap.caps) => jthr[t].res = "disabled"

\* C1: every ZPE dispatch method checks existence, then enablement, then the
\* capability flag, and calls into the guest only when all three pass: while
\* the call holds the registry guard, an unknown id has produced "not found",
\* a disabled plugin "is disabled" (whatever its flag), an enabled plugin
\* without the flag "does not support", none of them with a guest call; a
\* call is inside the guest only for a registered, enabled plugin with the
\* flag.  A call that could not take the guard made no guest call.
C1_ZpeDispatchOrder ==
    \A t \in Threads :
        LET c == zthr[t] IN
        /\ (c.pc = "zd_ret" /\ zlock = t) =>
              /\ (c.id \notin DOMAIN zplugins) =>
                    (c.res = "not_found" /\ ~c.called)
              /\ (c.id \in DOMAIN zplugins /\ ~zplugins[c.id].enabled) =>
                    (c.res = "disabled" /\ ~c.called)
              /\ (c.id \in DOMAIN zplugins /\ zplugins[c.id].enabled
                     /\ c.op \notin zplugins[c.id].caps) =>
                    (c.res = "unsupported" /\ ~c.called)
              /\ (c.id \in DOMAIN zplugins /\ zplugins[c.id].enabled
                     /\ c.op \in zplugins[c.id].caps) =>
                    (c.res \in {"ok", "guest_err"} /\ c.called)
        /\ (c.pc = "zd_exec") =>
              /\ zlock = t /\ c.called
              /\ c.id \in DOMAIN zplugins
              /\ zplugins[c.id].enabled
              /\ c.op \in zplugins[c.id].caps
        /\ (c.pc = "zd_ret" /\ zlock # t) => (c.res = "lock_error" /\ ~c.called)

\* C1 witness: a dispatch against a plugin that is disabled and also lacks
\* the flag of the requested operation has answered "is disabled".
C1_Witness ==
    \E t \in Threads :
        /\ zthr[t].pc = "zd_ret" /\ zlock = t
        /\ zthr[t].id \in DOMAIN zplugins
        /\ ~zplugins[zthr[t].id].enabled
        /\ zthr[t].op \notin zplugins[zthr[t].id].caps
        /\ zthr[t].res = "disabled"

\* C4 as claimed: from a successful set_plugin_enabled(id,false) until the
\* next set_plugin_enabled(id,true) or successful load of id, every dispatch
\* against id returns "is disabled" and starts no guest entry point.
C4_AsClaimed ==
    \A t \in Threads :
        (zthr[t].pc \in {"zd_ret", "zd_exec"} /\ zhist[zthr[t].id] # "none") =>
            (zthr[t].pc = "zd_ret" /\ zthr[t].res = "disabled" /\ ~zthr[t].called)

\* C4 as amended: in that period no dispatch against id starts a guest entry
\* point, under any interleaving, and each returns an error: "is disabled"
\* while the record is registered, "not found" once unload_plugin removed
\* it, and the lock failure when the guard could not be taken.
C4_DisabledNeverExecutes ==
    \A t \in Threads :
        (zthr[t].pc \in {"zd_ret", "zd_exec"} /\ zhist[zthr[t].id] # "none") =>
            /\ zthr[t].pc = "zd_ret"
            /\ ~zthr[t].called
            /\ zthr[t].res = IF zlock # t THEN "lock_error"
                             ELSE IF zhist[zthr[t].id] = "disabled" THEN "disabled"
                             ELSE "not_found"

\* C4 witness: a dispatch against a plugin that was disabled, and whose
\* flag for the operation is set, has answered "is disabled" while another
\* caller is in the middle of an operation of its own.
C4_Witness ==
    \E t, u \in Threads :
        /\ t # u
        /\ zthr[t].pc = "zd_ret" /\ zlock = t
        /\ zhist[zthr[t].id] = "disabled"
        /\ zthr[t].op \in zplugins[zthr[t].id].caps
        /\ zthr[t].res = "disabled"
        /\ zthr[u].pc # "idle"

\* Callers that are running code of a guest: a dispatch inside the guest, an
\* unload inside shutdown, a load inside initialize.
ZInGuest(t) == zthr[t].pc \in {"zd_exec", "zu_shutdown", "zl_init"}

\* C10 as claimed: no dispatch executes guest code while another dispatch,
\* or a load_plugin or unload_plugin, executes guest code.
C10_AsClaimed ==
    \A t, u \in Threads :
        (t # u /\ zthr[t].pc = "zd_exec") => ~ZInGuest(u)

\* C10 as amended: dispatch calls serialize against each other, against
\* unload_plugin's shutdown and against every mutation of the registry: no
\* two dispatch calls execute guest code at once (whatever their ids), none
\* executes while an unload runs shutdown, and the registry does not change
\* while a dispatch is inside the guest.  (The initialize of load_plugin
\* runs on the not yet registered instance, outside the guard.)
C10_Serialized ==
    /\ [](\A t, u \in Threads :
            (t # u /\ zthr[t].pc = "zd_exec") =>
                zthr[u].pc \notin {"zd_exec", "zu_shutdown"})
    /\ [][(\E t \in Threads : zthr[t].pc = "zd_exec") => zplugins' = zplugins]_vars

\* C10 witness: a dispatch is inside the guest of one plugin while another
\* caller's load of a different id stands at its store, waiting for the guard.
C10_Witness ==
    \E t, u \in Threads :
        /\ t # u
        /\ zthr[t].pc = "zd_exec"
        /\ zthr[u].pc = "zl_store"
        /\ zthr[t].id # zthr[u].id

====
